---- MODULE Spec2Model ----
(***************************************************************************)
(* Model of the image-hosting repository:                                  *)
(*   - the Uploader component and its bounded worker pool                  *)
(*     (components/uploader.tsx: runWithConcurrency, uploadOne);           *)
(*   - the metadata store with its promise-chain write queue (lib/db.ts)   *)
(*     and the Next.js upload and delete routes that use it;               *)
(*   - the Express backend (scripts/server.js) with its unserialized       *)
(*     read-modify-write of db.json, and its POST /delete;                 *)
(*   - the synchronous servers (scripts/serve.mjs and the lowdb server)    *)
(*     and their bulk delete;                                              *)
(*   - sanitizeFilename (lib/filename.ts) and the filter of the image      *)
(*     table, as functions applied to bounded inputs.                      *)
(* Each subsystem has its own specification over the shared variables.     *)
(***************************************************************************)
EXTENDS Integers, Sequences, FiniteSets, TLC

\* ---------------------------------------------------------------- bounds
\* Longest file list picked while Start Upload is pressed repeatedly.
MaxPicked == 2
\* Longest file name passed to sanitizeFilename.
MaxNameLen == 3
\* Longest items list of a bulk delete and number of bulk deletes received.
MaxItems == 2
MaxBulkReqs == 2
\* Number of delete requests the Next.js route receives on stored images.
MaxRouteDeletes == 1
\* Longest urls list of a delete request.
MaxDeleteUrls == 1
\* Number of POST /delete requests the Express backend receives.
MaxPostDeletes == 1
MaxRaceReqs == 2
MaxPathItems == 2
\* Number of rows of the image list and longest text typed into its filter.
MaxRows == 2
MaxFilterLen == 2
\* Longest file list a user picks.
MaxFiles == 3
\* Number of Start Upload presses explored.
MaxRuns == 2
\* Largest value typed into the concurrency input.
MaxConcurrency == 2

\* Number of requests the routes receive.
MaxReqs == 3
MaxExpressReqs == 2
MaxServeReqs == 2
\* Number of direct calls of db.upsert and db.deleteByFilenames.
MaxOps == 2
\* Latest time the clock reaches.
MaxTime == 1
\* Number of I/O errors the file system raises.
MaxFailures == 1
\* Longest filenames list of a delete request.
MaxDeleteNames == 1
MaxDeleteArgs == 2

\* File names a user can pick.
Names == {"a.png", "b.png"}

\* useState(8) of the concurrency input.
InitialConcurrency == 8

Max(x, y) == IF x >= y THEN x ELSE y

\* The not-a-number value of a JavaScript number cell, encoded as an integer
\* no computation of the model produces.
NaN == -1000

IsNaN(x) == x = NaN

\* Math.max(a, b): NaN when either argument is NaN.
MathMax(a, b) == IF IsNaN(a) \/ IsNaN(b) THEN NaN ELSE Max(a, b)

\* a < b on numbers: false when either side is NaN.
LessThan(a, b) == IF IsNaN(a) \/ IsNaN(b) THEN FALSE ELSE a < b

VARIABLES
  \* ---- Uploader component state (React useState cells)
  files,        \* File[]: the picked files, by name
  concurrency,  \* number typed into the concurrency input
  inFlight,     \* "In flight" counter
  completed,    \* "completed" counter
  statusMap,    \* filename -> {status, error}; NoEntry when absent
  \* ---- one record per runWithConcurrency call (its closure variables)
  runs,
  \* ---- Next.js routes and lib/db.ts
  clock,        \* the time new Date() returns
  disk,         \* uploads directory: filename -> stored bytes (0: no file);
                \* where requests name paths, also the files outside it
  doc,          \* the persisted document images.json
  writeQueue,   \* the promise chain: one entry per queued operation
  reqs,         \* the requests received by the upload and delete routes
  ioFailures,   \* number of I/O errors injected so far
  reader,       \* a caller of db.getAll and what it was returned
  \* ---- Express backend scripts/server.js
  dbJson,       \* the persisted document db.json: { images: [...] }
  xreqs,        \* the upload and delete requests it received
  \* ---- custom server scripts/serve.mjs (synchronous handlers on db.json)
  sreqs,        \* the requests it received
  \* ---- lowdb server (server.ts): synchronous handlers on db.json
  lreqs,        \* the bulk delete requests it answered
  \* ---- lib/filename.ts
  sanitizeCall, \* a call of sanitizeFilename: its argument and its result
  \* ---- ImageTable and Gallery components
  imageTable    \* the SWR data, the filter cell and the filtered rows

poolVars == <<files, concurrency, inFlight, completed, statusMap, runs>>

routeVars == <<clock, disk, doc, writeQueue, reqs, ioFailures, reader>>

expressVars == <<dbJson, xreqs, sreqs>>

sideVars == <<lreqs, sanitizeCall, imageTable>>

vars == <<poolVars, routeVars, expressVars, sideVars>>

\* A slot of the document's images map holding no record.
NoRec ==
  [present |-> FALSE, url |-> <<>>, size |-> 0, mime |-> "",
   createdAt |-> 0, updatedAt |-> 0]

\* ------------------------------------------------------------- Uploader
NoEntry == [status |-> "none", error |-> ""]

FileLists == UNION {[1..n -> Names] : n \in 0..MaxFiles}

ConcurrencyInputs == (-1)..MaxConcurrency

\* What the fetch of uploadOne can come back with: a 2xx reply whose first
\* item is a stored file or a skipped one, a 2xx reply without items, a
\* non-2xx reply, and a failed request.
Responses ==
  {"ok_uploaded", "ok_skipped", "ok_no_item", "http_error", "network_error"}

\* uploadOne(file): the settled value of the worker promise for a response.
uploadOne(name, resp) ==
  CASE resp = "network_error" ->
         [kind |-> "rejected", filename |-> name, status |-> "", error |-> "Failed to fetch"]
    [] resp = "http_error" ->
         [kind |-> "fulfilled", filename |-> name, status |-> "error", error |-> "Upload failed"]
    [] resp = "ok_no_item" ->
         [kind |-> "fulfilled", filename |-> name, status |-> "uploaded", error |-> ""]
    [] resp = "ok_uploaded" ->
         [kind |-> "fulfilled", filename |-> name, status |-> "uploaded", error |-> ""]
    [] resp = "ok_skipped" ->
         [kind |-> "fulfilled", filename |-> name, status |-> "skipped",
          error |-> "File exists. Set overwrite=true to replace."]

\* The cells a call of next() reads and writes: the run's closure variables
\* and the two React cells it updates.
PoolState(run, inf, sm) == [run |-> run, inFlight |-> inf, statusMap |-> sm]

\* Mutant of CanDispatch: the ceiling test off by one (active <= limit).
CanDispatchOffByOne(run) == run.active <= run.limit /\ run.idx < Len(run.items)

\* Guard of the dispatch loop: while (active < limit && idx < items.length).
CanDispatch(run) == LessThan(run.active, run.limit) /\ run.idx < Len(run.items)

\* Mutant of DispatchOne: the worker is started without the status update.
DispatchOneNoStatus(st) ==
  LET run == st.run
      i == run.idx + 1
  IN [run |-> [run EXCEPT !.idx = @ + 1,
                          !.active = @ + 1,
                          !.w[i] = "inflight"],
      inFlight |-> st.inFlight + 1,
      statusMap |-> st.statusMap]

\* One iteration of the while loop of next(): dispatch items[idx++].
DispatchOne(st) ==
  LET run == st.run
      i == run.idx + 1
  IN [run |-> [run EXCEPT !.idx = @ + 1,
                          !.active = @ + 1,
                          !.w[i] = "inflight"],
      inFlight |-> st.inFlight + 1,
      statusMap |-> [st.statusMap EXCEPT ![run.items[i]] =
                        [status |-> "uploading", error |-> ""]]]

\* Mutant of DispatchLoop: a call of next() dispatches at most one item.
DispatchAtMostOne(st) ==
  IF CanDispatch(st.run) THEN DispatchOne(st) ELSE st

\* while (active < limit && idx < items.length) { ... }
RECURSIVE DispatchLoop(_)
DispatchLoop(st) ==
  IF CanDispatch(st.run) THEN DispatchLoop(DispatchOne(st)) ELSE st

\* Mutant of AllDone: resolve only after some item was dispatched.
AllDoneAfterWork(run) ==
  run.idx >= Len(run.items) /\ run.active = 0 /\ run.idx > 0

\* Mutant of AllDone: resolve as soon as everything is dispatched.
AllDoneIgnoringActive(run) == run.idx >= Len(run.items)

\* Test of the first line of next().
AllDone(run) == run.idx >= Len(run.items) /\ run.active = 0

\* next(): resolve(results) and return when everything is dispatched and
\* settled, else run the dispatch loop.
PoolNext(st) ==
  IF AllDone(st.run)
    THEN [st EXCEPT !.run.resolves = @ + 1]
    ELSE DispatchLoop(st)

\* runWithConcurrency(items, worker, limit) up to its first call of next().
NewRun(items, limit) ==
  [items |-> items, limit |-> limit, idx |-> 0, active |-> 0,
   results |-> <<>>, resolves |-> 0,
   w |-> [i \in 1..Len(items) |-> "queued"],
   toast |-> <<>>]

\* onFilePick / onDrop.
QueuedMap(picked) ==
  [n \in Names |->
     IF \E i \in 1..Len(picked) : picked[i] = n
       THEN [status |-> "queued", error |-> ""]
       ELSE NoEntry]

OnFilePick(picked) ==
  /\ files' = picked
  /\ completed' = 0
  /\ statusMap' = QueuedMap(picked)
  /\ UNCHANGED <<concurrency, inFlight, runs, routeVars, expressVars, sideVars>>

\* onChange of the concurrency input.
SetConcurrency(n) ==
  /\ concurrency' = n
  /\ UNCHANGED <<files, inFlight, completed, statusMap, runs, routeVars, expressVars, sideVars>>

\* What the value property of the number input can hold: the empty string
\* or a valid floating-point number, as a sequence of characters.
ConcurrencyTexts ==
  {<<>>, <<"0">>, <<"1">>, <<"2">>, <<"-", "1">>, <<".", "5">>, <<"1", ".", "5">>}

DigitValue(ch) ==
  CASE ch = "0" -> 0 [] ch = "1" -> 1 [] ch = "2" -> 2 [] ch = "3" -> 3
    [] ch = "4" -> 4 [] ch = "5" -> 5 [] ch = "6" -> 6 [] ch = "7" -> 7
    [] ch = "8" -> 8 [] ch = "9" -> 9 [] OTHER -> NaN

\* The decimal value of the longest prefix of digits of s after the digits
\* read so far (acc), NaN when there is no digit at all.
RECURSIVE ParseDigits(_, _)
ParseDigits(s, acc) ==
  IF s = <<>> \/ IsNaN(DigitValue(Head(s)))
    THEN acc
    ELSE ParseDigits(Tail(s),
                     (IF IsNaN(acc) THEN 0 ELSE acc * 10) + DigitValue(Head(s)))

\* Number.parseInt(s, 10): an optional sign, then the leading digits.
ParseInt(s) ==
  LET signed == s # <<>> /\ Head(s) \in {"-", "+"}
      n == ParseDigits(IF signed THEN Tail(s) ELSE s, NaN)
  IN IF IsNaN(n) THEN NaN
     ELSE IF signed /\ Head(s) = "-" THEN 0 - n ELSE n

\* onChange of the concurrency input:
\* setConcurrency(Number.parseInt(e.target.value || "1", 10)).
OnConcurrencyChange(text) ==
  /\ concurrency' = ParseInt(IF text = <<>> THEN <<"1">> ELSE text)
  /\ UNCHANGED <<files, inFlight, completed, statusMap, runs, routeVars, expressVars, sideVars>>

\* The limit startUpload passes: Math.max(1, concurrency).
EffectiveLimit(c) == MathMax(1, c)

\* startUpload, up to the await of runWithConcurrency.
StartUpload ==
  /\ Len(files) > 0
  /\ Len(runs) < MaxRuns
  /\ LET st == PoolNext(PoolState(NewRun(files, EffectiveLimit(concurrency)),
                                  inFlight, statusMap))
     IN /\ runs' = Append(runs, st.run)
        /\ inFlight' = st.inFlight
        /\ statusMap' = st.statusMap
  /\ completed' = 0
  /\ UNCHANGED <<files, concurrency, routeVars, expressVars, sideVars>>

\* .then((r) => { results.push(r); setStatusMap(...) }), run with the value
\* the worker promise of item i fulfils with.
ThenHandler(r, i, resp) ==
  /\ runs[r].w[i] = "inflight"
  /\ LET o == uploadOne(runs[r].items[i], resp)
     IN /\ o.kind = "fulfilled"
        /\ runs' = [runs EXCEPT
                      ![r].results = Append(@, [filename |-> o.filename,
                                                status |-> o.status,
                                                error |-> o.error]),
                      ![r].w[i] = "recorded"]
        /\ statusMap' = [statusMap EXCEPT ![o.filename] =
                            [status |-> o.status, error |-> o.error]]
  /\ UNCHANGED <<files, concurrency, inFlight, completed, routeVars, expressVars, sideVars>>

\* Mutant of CatchHandler: the rejection is shown but not pushed to results.
CatchHandlerNoPush(r, i, resp) ==
  /\ runs[r].w[i] = "inflight"
  /\ LET o == uploadOne(runs[r].items[i], resp)
     IN /\ o.kind = "rejected"
        /\ runs' = [runs EXCEPT ![r].w[i] = "recorded"]
        /\ statusMap' = [statusMap EXCEPT ![runs[r].items[i]] =
                            [status |-> "error", error |-> o.error]]
  /\ UNCHANGED <<files, concurrency, inFlight, completed, routeVars, expressVars, sideVars>>

\* .catch((err) => { results.push({status: "error"}); setStatusMap(...) }),
\* run with the error the worker promise of item i rejects with.
CatchHandler(r, i, resp) ==
  /\ runs[r].w[i] = "inflight"
  /\ LET name == runs[r].items[i]
         o == uploadOne(name, resp)
     IN /\ o.kind = "rejected"
        /\ runs' = [runs EXCEPT
                      ![r].results = Append(@, [filename |-> name,
                                                status |-> "error",
                                                error |-> o.error]),
                      ![r].w[i] = "recorded"]
        /\ statusMap' = [statusMap EXCEPT ![name] =
                            [status |-> "error", error |-> o.error]]
  /\ UNCHANGED <<files, concurrency, inFlight, completed, routeVars, expressVars, sideVars>>

\* Mutant of FinallyHandler: the slot is released but next() is not called.
FinallyHandlerNoNext(r, i) ==
  /\ runs[r].w[i] = "recorded"
  /\ runs' = [runs EXCEPT ![r].active = @ - 1, ![r].w[i] = "done"]
  /\ inFlight' = Max(0, inFlight - 1)
  /\ completed' = completed + 1
  /\ UNCHANGED <<files, concurrency, statusMap, routeVars, expressVars, sideVars>>

\* .finally(() => { active--; setInFlight; setCompleted; next() })
FinallyHandler(r, i) ==
  /\ runs[r].w[i] = "recorded"
  /\ LET run1 == [runs[r] EXCEPT !.active = @ - 1, !.w[i] = "done"]
         st == PoolNext(PoolState(run1, Max(0, inFlight - 1), statusMap))
     IN /\ runs' = [runs EXCEPT ![r] = st.run]
        /\ inFlight' = st.inFlight
        /\ statusMap' = st.statusMap
  /\ completed' = completed + 1
  /\ UNCHANGED <<files, concurrency, routeVars, expressVars, sideVars>>

CountStatus(res, S) == Cardinality({j \in 1..Len(res) : res[j].status \in S})

\* startUpload after the await: count the outcomes and show the toast.
FinishUpload(r) ==
  /\ runs[r].resolves > 0
  /\ runs[r].toast = <<>>
  /\ LET res == runs[r].results
     IN runs' = [runs EXCEPT ![r].toast =
                   <<CountStatus(res, {"uploaded", "overwritten"}),
                     CountStatus(res, {"skipped"}),
                     CountStatus(res, {"error"})>>]
  /\ UNCHANGED <<files, concurrency, inFlight, completed, statusMap, routeVars, expressVars, sideVars>>

\* No call of sanitizeFilename under way.
SanitizeIdle ==
  sanitizeCall = [name |-> <<>>, result |-> <<>>, returned |-> FALSE]

\* The table before the list has loaded: no rows, empty filter.
TableIdle ==
  imageTable = [images |-> <<>>, filter |-> <<>>, filtered |-> <<>>]

\* The routes and the stores before any request; the Express backend
\* writes { images: [] } to db.json when it starts.
StoresIdle ==
  /\ dbJson = [state |-> "ok", images |-> <<>>]
  /\ xreqs = <<>>
  /\ sreqs = <<>>
  /\ reader = [pc |-> "idle", result |-> "none"]
  /\ clock = 0
  /\ disk = [n \in Names |-> 0]
  /\ doc = [state |-> "missing", images |-> [n \in Names |-> NoRec]]
  /\ writeQueue = <<>>
  /\ reqs = <<>>
  /\ ioFailures = 0

RouteIdle ==
  /\ StoresIdle
  /\ lreqs = <<>>
  /\ SanitizeIdle
  /\ TableIdle

\* The Uploader component before any pick.
PoolIdle ==
  /\ files = <<>>
  /\ concurrency = InitialConcurrency
  /\ inFlight = 0
  /\ completed = 0
  /\ statusMap = [n \in Names |-> NoEntry]
  /\ runs = <<>>

UploaderInit == PoolIdle /\ RouteIdle

UploaderNext ==
  \/ \E picked \in FileLists : OnFilePick(picked)
  \/ \E n \in ConcurrencyInputs : SetConcurrency(n)
  \/ StartUpload
  \/ \E r \in 1..Len(runs) : \E i \in 1..Len(runs[r].items) :
       \E resp \in Responses : ThenHandler(r, i, resp)
  \/ \E r \in 1..Len(runs) : \E i \in 1..Len(runs[r].items) :
       \E resp \in Responses : CatchHandler(r, i, resp)
  \/ \E r \in 1..Len(runs) : \E i \in 1..Len(runs[r].items) : FinallyHandler(r, i)
  \/ \E r \in 1..Len(runs) : FinishUpload(r)

UploaderSpec == UploaderInit /\ [][UploaderNext]_vars

\* ------------------------------------------- one runWithConcurrency call
\* Concurrency settings a batch is started with: one that is clamped and
\* the values up to MaxConcurrency.
PoolConcurrency == 0..MaxConcurrency

\* Batches up to renaming of the files: the first file is a.png.
PoolFileLists == {l \in FileLists : l = <<>> \/ l[1] = "a.png"}

\* The component right after runWithConcurrency(items, uploadOne, limit) was
\* called on a fresh pick: the first next() has run.
PoolInit ==
  \E picked \in PoolFileLists : \E c \in PoolConcurrency :
    LET st == PoolNext(PoolState(NewRun(picked, EffectiveLimit(c)),
                                 0, QueuedMap(picked)))
    IN /\ RouteIdle
       /\ files = picked
       /\ concurrency = c
       /\ inFlight = st.inFlight
       /\ completed = 0
       /\ statusMap = st.statusMap
       /\ runs = <<st.run>>

PoolNextStep ==
  \/ \E i \in 1..Len(runs[1].items) : \E resp \in Responses : ThenHandler(1, i, resp)
  \/ \E i \in 1..Len(runs[1].items) : \E resp \in Responses : CatchHandler(1, i, resp)
  \/ \E i \in 1..Len(runs[1].items) : FinallyHandler(1, i)
  \/ FinishUpload(1)

PoolSpec == PoolInit /\ [][PoolNextStep]_vars

\* Every worker promise settles and every queued promise reaction runs.
FairPoolSpec == PoolSpec /\ WF_vars(PoolNextStep)

\* ------------------------------- the concurrency input and Start Upload
\* The component after a pick, before Start Upload is pressed.
LimitInit ==
  \E picked \in PoolFileLists :
    /\ RouteIdle
    /\ files = picked
    /\ concurrency = InitialConcurrency
    /\ inFlight = 0
    /\ completed = 0
    /\ statusMap = QueuedMap(picked)
    /\ runs = <<>>

\* The first press of Start Upload.
FirstStartUpload == Len(runs) = 0 /\ StartUpload

LimitNext ==
  \/ \E text \in ConcurrencyTexts : OnConcurrencyChange(text)
  \/ FirstStartUpload
  \/ \E r \in 1..Len(runs) : \E i \in 1..Len(runs[r].items) :
       \E resp \in Responses : ThenHandler(r, i, resp)
  \/ \E r \in 1..Len(runs) : \E i \in 1..Len(runs[r].items) :
       \E resp \in Responses : CatchHandler(r, i, resp)
  \/ \E r \in 1..Len(runs) : \E i \in 1..Len(runs[r].items) : FinallyHandler(r, i)
  \/ \E r \in 1..Len(runs) : FinishUpload(r)

LimitSpec == LimitInit /\ [][LimitNext]_vars

\* ------------------------- picks and repeated presses of Start Upload
\* File lists picked, up to renaming of the files.
PickLists ==
  {l \in UNION {[1..n -> Names] : n \in 0..MaxPicked} :
     l = <<>> \/ l[1] = "a.png"}

\* The text typed into the concurrency input.
ComponentTexts == {<<"1">>}

\* The fetch of a worker succeeds or fails.
ComponentResponses == {"ok_uploaded", "network_error"}

\* The Start Upload button is enabled whenever files is not empty, also
\* while a batch runs: every press starts another runWithConcurrency.
ComponentNext ==
  \/ \E picked \in PickLists : OnFilePick(picked)
  \/ \E text \in ComponentTexts : OnConcurrencyChange(text)
  \/ StartUpload
  \/ \E r \in 1..Len(runs) : \E i \in 1..Len(runs[r].items) :
       \E resp \in ComponentResponses : ThenHandler(r, i, resp)
  \/ \E r \in 1..Len(runs) : \E i \in 1..Len(runs[r].items) :
       \E resp \in ComponentResponses : CatchHandler(r, i, resp)
  \/ \E r \in 1..Len(runs) : \E i \in 1..Len(runs[r].items) : FinallyHandler(r, i)
  \/ \E r \in 1..Len(runs) : FinishUpload(r)

ComponentSpec == UploaderInit /\ [][ComponentNext]_vars

\* ------------------------------------------------- claims about the pool
TerminalStatuses == {"uploaded", "overwritten", "skipped", "error"}

\* Workers dispatched whose finally handler has not run yet.
ActiveWorkers(run) ==
  {i \in 1..Len(run.items) :
     run.w[i] \in {"inflight", "recorded"}}

CountName(seq, n) == Cardinality({j \in 1..Len(seq) : seq[j] = n})

CountResult(res, n) == Cardinality({j \in 1..Len(res) : res[j].filename = n})

\* C1: during a runWithConcurrency call the active count is the number of
\* workers dispatched and not yet completed, and it never exceeds the limit.
C1_ConcurrencyCeiling ==
  \A r \in 1..Len(runs) :
    /\ runs[r].limit >= 1
    /\ runs[r].active = Cardinality(ActiveWorkers(runs[r]))
    /\ runs[r].active <= runs[r].limit

\* The ceiling binds: the pool is full, a worker has completed and files
\* are still undispatched.
C1_Witness ==
  \E r \in 1..Len(runs) :
    /\ runs[r].active = runs[r].limit
    /\ runs[r].idx < Len(runs[r].items)
    /\ \E i \in 1..Len(runs[r].items) : runs[r].w[i] = "done"

\* C5: the resolved outcome sequence has exactly one entry per input file
\* and every entry has a terminal status, for fulfilled and rejected workers.
C5_OneTerminalOutcomePerFile ==
  \A r \in 1..Len(runs) :
    runs[r].resolves > 0 =>
      /\ Len(runs[r].results) = Len(runs[r].items)
      /\ \A n \in Names :
           CountResult(runs[r].results, n) = CountName(runs[r].items, n)
      /\ \A j \in 1..Len(runs[r].results) :
           runs[r].results[j].status \in TerminalStatuses

\* A resolved batch with two files of one name, one rejected worker and one
\* fulfilled worker.
C5_Witness ==
  \E r \in 1..Len(runs) :
    /\ runs[r].resolves > 0
    /\ \E n \in Names : CountName(runs[r].items, n) >= 2
    /\ \E j \in 1..Len(runs[r].results) :
         runs[r].results[j].error = "Failed to fetch"
    /\ \E j \in 1..Len(runs[r].results) :
         runs[r].results[j].status = "skipped"

\* C6: when the promise of runWithConcurrency is resolved every file has
\* been dispatched and every worker has completed; resolve is called once.
C6_ResolvesAfterAllSettled ==
  \A r \in 1..Len(runs) :
    /\ runs[r].resolves <= 1
    /\ runs[r].resolves > 0 =>
         /\ runs[r].idx = Len(runs[r].items)
         /\ runs[r].active = 0
         /\ \A i \in 1..Len(runs[r].items) : runs[r].w[i] = "done"

\* A batch larger than its limit has resolved.
C6_Witness ==
  \E r \in 1..Len(runs) :
    /\ runs[r].resolves = 1
    /\ Len(runs[r].items) > runs[r].limit
    /\ runs[r].toast # <<>>

BatchResolved ==
  \A r \in 1..Len(runs) :
    /\ runs[r].resolves > 0
    /\ Len(runs[r].results) = Len(runs[r].items)

\* C7: when every dispatched worker settles, the batch eventually resolves
\* with a report for every item, also when workers fail.
C7_EventuallyResolves == <>[]BatchResolved

\* A batch in which every worker failed has resolved with a full report.
C7_Witness ==
  \E r \in 1..Len(runs) :
    /\ runs[r].resolves > 0
    /\ Len(runs[r].items) >= 2
    /\ Len(runs[r].results) = Len(runs[r].items)
    /\ \A j \in 1..Len(runs[r].results) : runs[r].results[j].status = "error"

\* ------------------------------------ lib/db.ts and the Next.js routes
\* Upload payloads: the length of the bytes and the type the client declares
\* (an empty type makes the route store application/octet-stream).
Payloads == {[bytes |-> 1, type |-> "image/png"], [bytes |-> 2, type |-> ""]}

\* filenames lists of delete requests.
DeleteLists == UNION {[1..n -> Names] : n \in 1..MaxDeleteNames}

\* filenames lists of direct calls of db.deleteByFilenames; names may repeat.
DeleteArgs == UNION {[1..n -> Names] : n \in 1..MaxDeleteArgs}

\* An images map without records.
NoImages == [n \in Names |-> NoRec]

\* The document ensureDataFile writes when there is none: { images: {} }.
EmptyDoc == [state |-> "ok", images |-> NoImages]

\* toPublicUrl(filename).
toPublicUrl(name) == <<"/api/images/file/", name>>

NoMeta == [filename |-> "", url |-> <<>>, size |-> 0, mime |-> ""]

NoFlags == [n \in Names |-> "unset"]

\* Mutant of UpsertRecord: an existing record keeps its size and mime.
UpsertRecordFirstWins(existing, meta, now) ==
  [present |-> TRUE, url |-> meta.url,
   size |-> IF existing.present THEN existing.size ELSE meta.size,
   mime |-> IF existing.present THEN existing.mime ELSE meta.mime,
   createdAt |-> IF existing.present THEN existing.createdAt ELSE now,
   updatedAt |-> now]

\* The record db.upsert builds from the existing record, if any.
UpsertRecord(existing, meta, now) ==
  [present |-> TRUE, url |-> meta.url, size |-> meta.size, mime |-> meta.mime,
   createdAt |-> IF existing.present THEN existing.createdAt ELSE now,
   updatedAt |-> now]

\* The loop of db.deleteByFilenames over filenames[j..], on the images map
\* and the results map.
RECURSIVE DeleteLoop(_, _, _, _)
DeleteLoop(names, j, images, results) ==
  IF j > Len(names) THEN [images |-> images, results |-> results]
  ELSE IF images[names[j]].present
    THEN DeleteLoop(names, j + 1, [images EXCEPT ![names[j]] = NoRec],
                    [results EXCEPT ![names[j]] = "true"])
    ELSE DeleteLoop(names, j + 1, images,
                    [results EXCEPT ![names[j]] = "false"])

\* An entry of the promise chain: the callback passed to writeQueue.then.
NewOp(kind, names, meta) ==
  [kind |-> kind, names |-> names, meta |-> meta, pc |-> "queued",
   ran |-> FALSE, hadRecord |-> FALSE, had |-> {},
   next |-> NoImages, results |-> NoFlags]

Settled(op) == op.pc \in {"fulfilled", "rejected"}

InSection(op) == op.pc \in {"init", "read", "write", "writing"}

\* Mutant of CanStart: the callback runs without waiting for the chain.
CanStartUnchained(k) == TRUE

\* writeQueue.then(callback): the callback runs once the previous entry of
\* the chain has fulfilled (the chain starts as Promise.resolve()).
CanStart(k) == IF k = 1 THEN TRUE ELSE writeQueue[k - 1].pc = "fulfilled"

\* The previous entry rejected: then() passes the rejection on.
PrevRejected(k) == k > 1 /\ writeQueue[k - 1].pc = "rejected"

\* The meta the upload route passes to db.upsert.
MetaOf(name, payload) ==
  [filename |-> name, url |-> toPublicUrl(name), size |-> payload.bytes,
   mime |-> IF payload.type = "" THEN "application/octet-stream"
                                 ELSE payload.type]

\* A caller invokes db.upsert(meta): the callback joins the chain.
SubmitUpsert(name, payload) ==
  /\ Len(writeQueue) < MaxOps
  /\ writeQueue' = Append(writeQueue,
       NewOp("upsert", <<name>>, MetaOf(name, payload)))
  /\ UNCHANGED <<clock, disk, doc, reqs, ioFailures, reader, poolVars, expressVars, sideVars>>

\* A caller invokes db.deleteByFilenames(filenames).
SubmitDelete(names) ==
  /\ Len(writeQueue) < MaxOps
  /\ writeQueue' = Append(writeQueue, NewOp("delete", names, NoMeta))
  /\ UNCHANGED <<clock, disk, doc, reqs, ioFailures, reader, poolVars, expressVars, sideVars>>

\* The callback starts: readDb -> ensureDataFile -> access(images.json).
OpStart(k) ==
  /\ writeQueue[k].pc = "queued"
  /\ CanStart(k)
  /\ writeQueue' = [writeQueue EXCEPT
                      ![k].pc = IF doc.state = "missing" THEN "init" ELSE "read",
                      ![k].ran = TRUE]
  /\ UNCHANGED <<clock, disk, doc, reqs, ioFailures, reader, poolVars, expressVars, sideVars>>

\* ensureDataFile found no document: writeFile of the initial document.
OpInit(k) ==
  /\ writeQueue[k].pc = "init"
  /\ doc' = EmptyDoc
  /\ writeQueue' = [writeQueue EXCEPT ![k].pc = "read"]
  /\ UNCHANGED <<clock, disk, reqs, ioFailures, reader, poolVars, expressVars, sideVars>>

\* readFile and JSON.parse, then the synchronous mutation of the state.
OpRead(k) ==
  /\ writeQueue[k].pc = "read"
  /\ LET op == writeQueue[k] IN
       IF doc.state # "ok"
         THEN writeQueue' = [writeQueue EXCEPT ![k].pc = "rejected"]
         ELSE IF op.kind = "upsert"
           THEN LET existing == doc.images[op.meta.filename]
                IN writeQueue' = [writeQueue EXCEPT
                     ![k].pc = "write",
                     ![k].hadRecord = existing.present,
                     ![k].next = [doc.images EXCEPT ![op.meta.filename] =
                                    UpsertRecord(existing, op.meta, clock)]]
           ELSE LET res == DeleteLoop(op.names, 1, doc.images, op.results)
                IN writeQueue' = [writeQueue EXCEPT
                     ![k].pc = "write",
                     ![k].had = {n \in Names : doc.images[n].present},
                     ![k].next = res.images,
                     ![k].results = res.results]
  /\ UNCHANGED <<clock, disk, doc, reqs, ioFailures, reader, poolVars, expressVars, sideVars>>

\* writeDb(state) starts: fs.writeFile opens images.json, which truncates it.
\* Until the write ends the file holds a prefix of the new document (images
\* keeps the records of the replaced document for the record predicates).
OpWriteBegin(k) ==
  /\ writeQueue[k].pc = "write"
  /\ doc' = [doc EXCEPT !.state = "writing"]
  /\ writeQueue' = [writeQueue EXCEPT ![k].pc = "writing"]
  /\ UNCHANGED <<clock, disk, reqs, ioFailures, reader, poolVars, expressVars, sideVars>>

\* writeDb(state) ends: the document is replaced and the entry fulfils.
OpWrite(k) ==
  /\ writeQueue[k].pc = "writing"
  /\ doc' = [state |-> "ok", images |-> writeQueue[k].next]
  /\ writeQueue' = [writeQueue EXCEPT ![k].pc = "fulfilled",
                                      ![k].next = NoImages]
  /\ UNCHANGED <<clock, disk, reqs, ioFailures, reader, poolVars, expressVars, sideVars>>

\* An I/O error in access, readFile or writeFile: the callback throws and the
\* entry rejects. A writeFile that fails after it truncated the file leaves a
\* truncated document (torn); one that fails before leaves the old document.
OpFails(k, torn) ==
  /\ ioFailures < MaxFailures
  /\ InSection(writeQueue[k])
  /\ torn => writeQueue[k].pc \in {"init", "writing"}
  /\ writeQueue[k].pc = "writing" => torn
  /\ ioFailures' = ioFailures + 1
  /\ writeQueue' = [writeQueue EXCEPT ![k].pc = "rejected",
                                      ![k].next = NoImages]
  /\ doc' = IF torn THEN [doc EXCEPT !.state = "torn"] ELSE doc
  /\ UNCHANGED <<clock, disk, reqs, reader, poolVars, expressVars, sideVars>>

\* then() on a rejected chain: the entry rejects and its callback never runs.
OpSkipped(k) ==
  /\ writeQueue[k].pc = "queued"
  /\ PrevRejected(k)
  /\ writeQueue' = [writeQueue EXCEPT ![k].pc = "rejected"]
  /\ UNCHANGED <<clock, disk, doc, reqs, ioFailures, reader, poolVars, expressVars, sideVars>>

\* new Date() moves on.
Tick ==
  /\ clock < MaxTime
  /\ clock' = clock + 1
  /\ UNCHANGED <<disk, doc, writeQueue, reqs, ioFailures, reader, poolVars, expressVars, sideVars>>

HasRecord(d, n) == d.state = "ok" /\ d.images[n].present

\* db.getAll() is called: readDb -> ensureDataFile -> access(images.json).
\* getAll does not go through writeQueue.
GetAllStart ==
  /\ reader.pc \in {"idle", "done"}
  /\ reader' = [pc |-> IF doc.state = "missing" THEN "init" ELSE "read",
                result |-> "none"]
  /\ UNCHANGED <<clock, disk, doc, writeQueue, reqs, ioFailures, poolVars, expressVars, sideVars>>

\* ensureDataFile of getAll found no document: writeFile of the initial one.
GetAllInit ==
  /\ reader.pc = "init"
  /\ doc' = EmptyDoc
  /\ reader' = [reader EXCEPT !.pc = "read"]
  /\ UNCHANGED <<clock, disk, writeQueue, reqs, ioFailures, poolVars, expressVars, sideVars>>

\* readFile and JSON.parse of getAll: the records, or the SyntaxError of a
\* document that is not complete.
GetAllRead ==
  /\ reader.pc = "read"
  /\ reader' = [pc |-> "done",
                result |-> IF doc.state = "ok" THEN "records" ELSE "unparseable"]
  /\ UNCHANGED <<clock, disk, doc, writeQueue, reqs, ioFailures, poolVars, expressVars, sideVars>>

NewReq(kind, names, payload, overwrite) ==
  [kind |-> kind, names |-> names, payload |-> payload, overwrite |-> overwrite,
   pc |-> IF kind = "upload" THEN "access" ELSE "unlink",
   exists |-> FALSE, j |-> 1, perItem |-> NoFlags, op |-> 0,
   status |-> "", error |-> "",
   recAtStart |-> /\ kind = "upload"
                  /\ doc.state \in {"ok", "writing"}
                  /\ doc.images[names[1]].present]

\* The payload of the q-th request: consecutive requests carry different
\* bytes and types.
PayloadOf(q) ==
  IF q % 2 = 1 THEN [bytes |-> 1, type |-> "image/png"]
               ELSE [bytes |-> 2, type |-> ""]

\* POST upload with one file (the Uploader posts one file per request).
NewUpload(name, overwrite) ==
  /\ Len(reqs) < MaxReqs
  /\ reqs' = Append(reqs, NewReq("upload", <<name>>,
                                 PayloadOf(Len(reqs) + 1), overwrite))
  /\ UNCHANGED <<clock, disk, doc, writeQueue, ioFailures, reader, poolVars, expressVars, sideVars>>

\* exists = await fs.access(destPath); skipped when it exists and overwrite
\* is off.
UploadAccess(q) ==
  /\ reqs[q].kind = "upload"
  /\ reqs[q].pc = "access"
  /\ LET exists == disk[reqs[q].names[1]] # 0 IN
       IF exists /\ ~reqs[q].overwrite
         THEN reqs' = [reqs EXCEPT
                ![q].exists = exists,
                ![q].status = "skipped",
                ![q].error = "File exists. Set overwrite=true to replace.",
                ![q].pc = "done"]
         ELSE reqs' = [reqs EXCEPT ![q].exists = exists, ![q].pc = "writeFile"]
  /\ UNCHANGED <<clock, disk, doc, writeQueue, ioFailures, reader, poolVars, expressVars, sideVars>>

\* await fs.writeFile(destPath, buf), then db.upsert(...) appends its
\* callback to the chain.
UploadWriteFile(q) ==
  /\ reqs[q].kind = "upload"
  /\ reqs[q].pc = "writeFile"
  /\ LET name == reqs[q].names[1]
     IN /\ disk' = [disk EXCEPT ![name] = reqs[q].payload.bytes]
        /\ writeQueue' = Append(writeQueue,
             NewOp("upsert", <<name>>, MetaOf(name, reqs[q].payload)))
        /\ reqs' = [reqs EXCEPT ![q].pc = "upsert", ![q].op = Len(writeQueue) + 1]
  /\ UNCHANGED <<clock, doc, ioFailures, reader, poolVars, expressVars, sideVars>>

\* fs.writeFile throws: the catch of the loop body reports the file.
UploadWriteFileFails(q) ==
  /\ ioFailures < MaxFailures
  /\ reqs[q].kind = "upload"
  /\ reqs[q].pc = "writeFile"
  /\ ioFailures' = ioFailures + 1
  /\ reqs' = [reqs EXCEPT ![q].status = "skipped", ![q].error = "EIO",
                          ![q].pc = "done"]
  /\ UNCHANGED <<clock, disk, doc, writeQueue, reader, poolVars, expressVars, sideVars>>

\* await db.upsert(...) settles: the result is pushed, or the catch runs.
UploadRespond(q) ==
  /\ reqs[q].kind = "upload"
  /\ reqs[q].pc = "upsert"
  /\ Settled(writeQueue[reqs[q].op])
  /\ reqs' = IF writeQueue[reqs[q].op].pc = "fulfilled"
               THEN [reqs EXCEPT
                      ![q].status = IF reqs[q].exists THEN "overwritten" ELSE "uploaded",
                      ![q].pc = "done"]
               ELSE [reqs EXCEPT ![q].status = "skipped", ![q].error = "EIO",
                                 ![q].pc = "done"]
  /\ UNCHANGED <<clock, disk, doc, writeQueue, ioFailures, reader, poolVars, expressVars, sideVars>>

\* POST delete with a filenames list.
NewDelete(names) ==
  /\ Len(reqs) < MaxReqs
  /\ reqs' = Append(reqs, NewReq("delete", names, [bytes |-> 0, type |-> ""], FALSE))
  /\ UNCHANGED <<clock, disk, doc, writeQueue, ioFailures, reader, poolVars, expressVars, sideVars>>

\* What follows the unlink of filenames[j]: the next unlink, or after the
\* last one db.deleteByFilenames(filenames) appends its callback.
AfterUnlink(q, flag) ==
  LET r == reqs[q] IN
    IF r.j < Len(r.names)
      THEN /\ reqs' = [reqs EXCEPT ![q].perItem[r.names[r.j]] = flag,
                                   ![q].j = r.j + 1]
           /\ UNCHANGED writeQueue
      ELSE /\ reqs' = [reqs EXCEPT ![q].perItem[r.names[r.j]] = flag,
                                   ![q].j = r.j + 1,
                                   ![q].pc = "await",
                                   ![q].op = Len(writeQueue) + 1]
           /\ writeQueue' = Append(writeQueue, NewOp("delete", r.names, NoMeta))

\* await fs.unlink(target): removes the file, or throws ENOENT.
DeleteUnlink(q) ==
  /\ reqs[q].kind = "delete"
  /\ reqs[q].pc = "unlink"
  /\ LET name == reqs[q].names[reqs[q].j] IN
       /\ disk' = [disk EXCEPT ![name] = 0]
       /\ AfterUnlink(q, IF disk[name] # 0 THEN "true" ELSE "false")
  /\ UNCHANGED <<clock, doc, ioFailures, reader, poolVars, expressVars, sideVars>>

\* fs.unlink throws on a file that exists: the file stays.
DeleteUnlinkFails(q) ==
  /\ ioFailures < MaxFailures
  /\ reqs[q].kind = "delete"
  /\ reqs[q].pc = "unlink"
  /\ disk[reqs[q].names[reqs[q].j]] # 0
  /\ ioFailures' = ioFailures + 1
  /\ AfterUnlink(q, "false")
  /\ UNCHANGED <<clock, disk, doc, reader, poolVars, expressVars, sideVars>>

\* await db.deleteByFilenames(...) settles: the report, or the 500 reply.
DeleteRespond(q) ==
  /\ reqs[q].kind = "delete"
  /\ reqs[q].pc = "await"
  /\ Settled(writeQueue[reqs[q].op])
  /\ reqs' = IF writeQueue[reqs[q].op].pc = "fulfilled"
               THEN [reqs EXCEPT ![q].status = "ok", ![q].pc = "done"]
               ELSE [reqs EXCEPT ![q].status = "error500", ![q].error = "EIO",
                                 ![q].pc = "done"]
  /\ UNCHANGED <<clock, disk, doc, writeQueue, ioFailures, reader, poolVars, expressVars, sideVars>>

RouteInit == PoolIdle /\ RouteIdle

RouteNext ==
  \/ \E n \in Names : \E o \in BOOLEAN : NewUpload(n, o)
  \/ \E q \in 1..Len(reqs) : UploadAccess(q)
  \/ \E q \in 1..Len(reqs) : UploadWriteFile(q)
  \/ \E q \in 1..Len(reqs) : UploadWriteFileFails(q)
  \/ \E q \in 1..Len(reqs) : UploadRespond(q)
  \/ \E l \in DeleteLists : NewDelete(l)
  \/ \E q \in 1..Len(reqs) : DeleteUnlink(q)
  \/ \E q \in 1..Len(reqs) : DeleteUnlinkFails(q)
  \/ \E q \in 1..Len(reqs) : DeleteRespond(q)
  \/ \E k \in 1..Len(writeQueue) : OpStart(k)
  \/ \E k \in 1..Len(writeQueue) : OpInit(k)
  \/ \E k \in 1..Len(writeQueue) : OpRead(k)
  \/ \E k \in 1..Len(writeQueue) : OpWriteBegin(k)
  \/ \E k \in 1..Len(writeQueue) : OpWrite(k)
  \/ \E k \in 1..Len(writeQueue) : \E torn \in BOOLEAN : OpFails(k, torn)
  \/ \E k \in 1..Len(writeQueue) : OpSkipped(k)
  \/ Tick

RouteSpec == RouteInit /\ [][RouteNext]_vars

\* The upload route next to a delete request that names up to MaxDeleteArgs
\* files, MaxRaceReqs requests in all.
RaceNext ==
  \/ \E n \in Names : \E o \in BOOLEAN : Len(reqs) < MaxRaceReqs /\ NewUpload(n, o)
  \/ \E q \in 1..Len(reqs) : UploadAccess(q)
  \/ \E q \in 1..Len(reqs) : UploadWriteFile(q)
  \/ \E q \in 1..Len(reqs) : UploadWriteFileFails(q)
  \/ \E q \in 1..Len(reqs) : UploadRespond(q)
  \/ \E l \in DeleteArgs : Len(reqs) < MaxRaceReqs /\ NewDelete(l)
  \/ \E q \in 1..Len(reqs) : DeleteUnlink(q)
  \/ \E q \in 1..Len(reqs) : DeleteUnlinkFails(q)
  \/ \E q \in 1..Len(reqs) : DeleteRespond(q)
  \/ \E k \in 1..Len(writeQueue) : OpStart(k)
  \/ \E k \in 1..Len(writeQueue) : OpInit(k)
  \/ \E k \in 1..Len(writeQueue) : OpRead(k)
  \/ \E k \in 1..Len(writeQueue) : OpWriteBegin(k)
  \/ \E k \in 1..Len(writeQueue) : OpWrite(k)
  \/ \E k \in 1..Len(writeQueue) : \E torn \in BOOLEAN : OpFails(k, torn)
  \/ \E k \in 1..Len(writeQueue) : OpSkipped(k)
  \/ Tick

RaceSpec == RouteInit /\ [][RaceNext]_vars

\* lib/db.ts alone, with its callers calling upsert and deleteByFilenames.
DbInit == PoolIdle /\ RouteIdle

DbNext ==
  \/ \E n \in Names : \E p \in Payloads : SubmitUpsert(n, p)
  \/ \E l \in DeleteArgs : SubmitDelete(l)
  \/ \E k \in 1..Len(writeQueue) : OpStart(k)
  \/ \E k \in 1..Len(writeQueue) : OpInit(k)
  \/ \E k \in 1..Len(writeQueue) : OpRead(k)
  \/ \E k \in 1..Len(writeQueue) : OpWriteBegin(k)
  \/ \E k \in 1..Len(writeQueue) : OpWrite(k)
  \/ \E k \in 1..Len(writeQueue) : \E torn \in BOOLEAN : OpFails(k, torn)
  \/ \E k \in 1..Len(writeQueue) : OpSkipped(k)
  \/ Tick

DbSpec == DbInit /\ [][DbNext]_vars

\* lib/db.ts with a caller of getAll next to the callers of the writes.
DbReadNext ==
  \/ DbNext
  \/ GetAllStart
  \/ GetAllInit
  \/ GetAllRead

DbReadSpec == DbInit /\ [][DbReadNext]_vars

\* ------------------------------------ scripts/server.js (Express backend)
\* readDB(): the parsed document; a document that does not parse reads as
\* { images: [] }.
readDB(d) == IF d.state = "ok" THEN d.images ELSE <<>>

\* Mutant of FindIndex: the record is never found.
FindIndexNever(images, name) == 0

\* db.images.findIndex(x => x.filename === filename), 0 when there is none.
FindIndex(images, name) ==
  IF \E i \in 1..Len(images) : images[i].filename = name
    THEN CHOOSE i \in 1..Len(images) :
           /\ images[i].filename = name
           /\ \A j \in 1..(i - 1) : images[j].filename # name
    ELSE 0

\* The body of the upload loop for one file: the record replaces the one at
\* idx keeping its createdAt, or is pushed.
UploadLoop(images, name, payload, now) ==
  LET idx == FindIndex(images, name)
      record == [filename |-> name, size |-> payload.bytes,
                 type |-> payload.type,
                 createdAt |-> IF idx > 0 THEN images[idx].createdAt ELSE now,
                 updatedAt |-> now]
  IN [images |-> IF idx > 0 THEN [images EXCEPT ![idx] = record]
                            ELSE Append(images, record),
      status |-> IF idx > 0 THEN "overwritten" ELSE "uploaded"]

\* A request of the Express backend as it arrives; fileAtStart and
\* recAtStart remember what was stored at that moment.
XNewReq(kind, name, overwrite) ==
  [kind |-> kind, name |-> name, payload |-> PayloadOf(Len(xreqs) + 1),
   overwrite |-> overwrite,
   pc |-> IF kind = "upload" THEN "multer" ELSE "readDB",
   now |-> 0, db |-> <<>>, status |-> "",
   fileAtStart |-> disk[name],
   recAtStart |-> \E i \in 1..Len(dbJson.images) :
                    dbJson.images[i].filename = name,
   quietAtStart |-> \A r \in 1..Len(xreqs) : xreqs[r].pc = "done",
   stored |-> FALSE, unreadable |-> FALSE]

\* POST /upload arrives with one file and the overwrite form field.
XNewUpload(name, overwrite) ==
  /\ Len(xreqs) < MaxExpressReqs
  /\ xreqs' = Append(xreqs, XNewReq("upload", name, overwrite))
  /\ UNCHANGED <<dbJson, routeVars, sreqs, poolVars, sideVars>>

\* multer.diskStorage stores the file under file.originalname, replacing a
\* file of that name.
XMulter(q) ==
  /\ xreqs[q].pc = "multer"
  /\ disk' = [disk EXCEPT ![xreqs[q].name] = xreqs[q].payload.bytes]
  /\ xreqs' = [xreqs EXCEPT ![q].pc = "handler", ![q].stored = TRUE]
  /\ UNCHANGED <<dbJson, clock, doc, writeQueue, reqs, ioFailures, reader, sreqs, poolVars, sideVars>>

\* The handler starts: now = new Date(), then readDB() is awaited.
XHandler(q) ==
  /\ xreqs[q].pc = "handler"
  /\ xreqs' = [xreqs EXCEPT ![q].now = clock, ![q].pc = "readDB"]
  /\ UNCHANGED <<dbJson, routeVars, sreqs, poolVars, sideVars>>

\* readDB() returns and the loop runs on the handler's copy of the document.
XReadDB(q) ==
  /\ xreqs[q].kind = "upload"
  /\ xreqs[q].pc = "readDB"
  /\ LET r == UploadLoop(readDB(dbJson), xreqs[q].name, xreqs[q].payload,
                         xreqs[q].now)
     IN xreqs' = [xreqs EXCEPT ![q].db = r.images, ![q].status = r.status,
                               ![q].unreadable = dbJson.state # "ok",
                               ![q].pc = "writeDB"]
  /\ UNCHANGED <<dbJson, routeVars, sreqs, poolVars, sideVars>>

\* DELETE /files/:name arrives: deleteByTargets(new Set([name])).
XNewDelete(name) ==
  /\ Len(xreqs) < MaxExpressReqs
  /\ xreqs' = Append(xreqs, XNewReq("delete", name, FALSE))
  /\ UNCHANGED <<dbJson, routeVars, sreqs, poolVars, sideVars>>

\* The records deleteByTargets keeps: those whose filename is not a target.
Kept(images, name) ==
  SelectSeq(images, LAMBDA it : it.filename # name)

\* deleteByTargets: readDB() returns and the loop over db.images reaches the
\* record of the target, if there is one; the reply says 200 when the name
\* is in deleted and 404 otherwise.
XDeleteRead(q) ==
  /\ xreqs[q].kind = "delete"
  /\ xreqs[q].pc = "readDB"
  /\ LET images == readDB(dbJson)
         found == FindIndex(images, xreqs[q].name) > 0
     IN xreqs' = [xreqs EXCEPT
          ![q].db = Kept(images, xreqs[q].name),
          ![q].status = IF found THEN "ok200" ELSE "notfound404",
          ![q].unreadable = dbJson.state # "ok",
          ![q].pc = IF found THEN "unlink" ELSE "writeDB"]
  /\ UNCHANGED <<dbJson, routeVars, sreqs, poolVars, sideVars>>

\* try { await fsp.unlink(...) } catch {}: the file of a deleted record is
\* removed when there is one.
XUnlink(q) ==
  /\ xreqs[q].pc = "unlink"
  /\ disk' = [disk EXCEPT ![xreqs[q].name] = 0]
  /\ xreqs' = [xreqs EXCEPT ![q].pc = "writeDB"]
  /\ UNCHANGED <<dbJson, clock, doc, writeQueue, reqs, ioFailures, reader, sreqs, poolVars, sideVars>>

\* writeDB(db) starts: fsp.writeFile opens db.json, which truncates it.
XWriteDBBegin(q) ==
  /\ xreqs[q].pc = "writeDB"
  /\ dbJson' = [dbJson EXCEPT !.state = "writing"]
  /\ xreqs' = [xreqs EXCEPT ![q].pc = "writing"]
  /\ UNCHANGED <<routeVars, sreqs, poolVars, sideVars>>

\* writeDB(db) ends: db.json holds the handler's copy; the reply is sent.
XWriteDB(q) ==
  /\ xreqs[q].pc = "writing"
  /\ dbJson' = [state |-> "ok", images |-> xreqs[q].db]
  /\ xreqs' = [xreqs EXCEPT ![q].pc = "done", ![q].db = <<>>]
  /\ UNCHANGED <<routeVars, sreqs, poolVars, sideVars>>

\* readFile or writeFile of db.json throws: the catch replies 500. A
\* writeFile that fails after it truncated the file leaves a truncated
\* document (torn); one that fails before leaves the old document.
XFails(q, torn) ==
  /\ ioFailures < MaxFailures
  /\ xreqs[q].pc \in {"readDB", "writeDB", "writing"}
  /\ torn <=> xreqs[q].pc = "writing"
  /\ ioFailures' = ioFailures + 1
  /\ dbJson' = IF torn THEN [dbJson EXCEPT !.state = "torn"] ELSE dbJson
  /\ xreqs' = [xreqs EXCEPT ![q].pc = "done", ![q].db = <<>>,
                            ![q].status = "error500"]
  /\ UNCHANGED <<clock, disk, doc, writeQueue, reqs, reader, sreqs, poolVars, sideVars>>

\* new Date() moves on while the Express backend runs.
XTick ==
  /\ clock < MaxTime
  /\ clock' = clock + 1
  /\ UNCHANGED <<disk, doc, writeQueue, reqs, ioFailures, reader, poolVars, expressVars, sideVars>>

\* The absolute URL the Express backends build for a stored file:
\* `${base}/files/${encodeURIComponent(filename)}`, as a sequence of its
\* parts (the names of the model have no character that is escaped).
ExternalUrl(name) == <<"http://host", "/files/", name>>

\* GET /images: readDB() and the records in the order of db.images, each
\* with its absolute url.
GetImages(d) ==
  LET images == readDB(d)
  IN [i \in 1..Len(images) |->
        [filename |-> images[i].filename, url |-> ExternalUrl(images[i].filename),
         size |-> images[i].size, type |-> images[i].type,
         createdAt |-> images[i].createdAt, updatedAt |-> images[i].updatedAt]]

ExpressInit == PoolIdle /\ RouteIdle

ExpressNext ==
  \/ \E n \in Names : \E o \in BOOLEAN : XNewUpload(n, o)
  \/ \E q \in 1..Len(xreqs) : XMulter(q)
  \/ \E q \in 1..Len(xreqs) : XHandler(q)
  \/ \E q \in 1..Len(xreqs) : XReadDB(q)
  \/ \E n \in Names : XNewDelete(n)
  \/ \E q \in 1..Len(xreqs) : XDeleteRead(q)
  \/ \E q \in 1..Len(xreqs) : XUnlink(q)
  \/ \E q \in 1..Len(xreqs) : XWriteDBBegin(q)
  \/ \E q \in 1..Len(xreqs) : XWriteDB(q)
  \/ \E q \in 1..Len(xreqs) : \E torn \in BOOLEAN : XFails(q, torn)
  \/ XTick

ExpressSpec == ExpressInit /\ [][ExpressNext]_vars

\* ------------------------------------------ scripts/serve.mjs (custom server)
\* readDB() of serve.mjs: synchronous; any error reads as { images: [] }.
ServeReadDB(d) == IF d.state = "ok" THEN d.images ELSE <<>>

\* The upload loop of serve.mjs for one file, on the byName map (kept here
\* in insertion order): the record keeps the createdAt of an existing one.
ServeUploadLoop(images, name, payload, now) ==
  LET idx == FindIndex(images, name)
      record == [filename |-> name, size |-> payload.bytes,
                 createdAt |-> IF idx > 0 THEN images[idx].createdAt ELSE now,
                 updatedAt |-> now]
  IN [images |-> IF idx > 0 THEN [images EXCEPT ![idx] = record]
                            ELSE Append(images, record),
      status |-> IF idx > 0 THEN "overwritten" ELSE "uploaded"]

\* Outcomes of writeDB(db): writeFileSync succeeds, or throws leaving the old
\* document or a truncated one; writeDB catches and logs the error.
WriteOutcomes == {"written", "intact", "torn"}

ServeWriteDB(images, outcome) ==
  CASE outcome = "written" -> [state |-> "ok", images |-> images]
    [] outcome = "intact" -> dbJson
    [] outcome = "torn" -> [dbJson EXCEPT !.state = "torn"]

\* POST /upload of serve.mjs arrives with one file.
SNewUpload(name) ==
  /\ Len(sreqs) < MaxServeReqs
  /\ sreqs' = Append(sreqs,
       [kind |-> "upload", name |-> name, payload |-> PayloadOf(Len(sreqs) + 1),
        pc |-> "multer", status |-> "", writeFailed |-> FALSE])
  /\ UNCHANGED <<dbJson, xreqs, routeVars, poolVars, sideVars>>

\* multer.diskStorage stores the file under file.originalname.
SMulter(q) ==
  /\ sreqs[q].pc = "multer"
  /\ disk' = [disk EXCEPT ![sreqs[q].name] = sreqs[q].payload.bytes]
  /\ sreqs' = [sreqs EXCEPT ![q].pc = "handler"]
  /\ UNCHANGED <<dbJson, xreqs, clock, doc, writeQueue, reqs, ioFailures, reader, poolVars, sideVars>>

\* The synchronous handler of POST /upload: readDB, the loop, writeDB and
\* the reply with the statuses of the loop.
SUpload(q, outcome) ==
  /\ sreqs[q].pc = "handler"
  /\ outcome # "written" => ioFailures < MaxFailures
  /\ LET r == ServeUploadLoop(ServeReadDB(dbJson), sreqs[q].name,
                              sreqs[q].payload, clock)
     IN /\ dbJson' = ServeWriteDB(r.images, outcome)
        /\ sreqs' = [sreqs EXCEPT ![q].pc = "done", ![q].status = r.status,
                                  ![q].writeFailed = outcome # "written"]
  /\ ioFailures' = IF outcome = "written" THEN ioFailures ELSE ioFailures + 1
  /\ UNCHANGED <<xreqs, clock, disk, doc, writeQueue, reqs, reader, poolVars, sideVars>>

\* The synchronous handler of POST /delete with one item: the record of the
\* name is dropped and its file unlinked when it exists; writeDB(toKeep).
SDelete(name, outcome) ==
  /\ Len(sreqs) < MaxServeReqs
  /\ outcome # "written" => ioFailures < MaxFailures
  /\ LET images == ServeReadDB(dbJson)
         found == FindIndex(images, name) > 0
     IN /\ disk' = IF found THEN [disk EXCEPT ![name] = 0] ELSE disk
        /\ dbJson' = ServeWriteDB(Kept(images, name), outcome)
        /\ sreqs' = Append(sreqs,
             [kind |-> "delete", name |-> name,
              payload |-> [bytes |-> 0, type |-> ""], pc |-> "done",
              status |-> IF found THEN "deleted" ELSE "nothing",
              writeFailed |-> outcome # "written"])
  /\ ioFailures' = IF outcome = "written" THEN ioFailures ELSE ioFailures + 1
  /\ UNCHANGED <<xreqs, clock, doc, writeQueue, reqs, reader, poolVars, sideVars>>

\* POST /delete with one item whose file exists and whose unlinkSync throws:
\* the catch of the loop body logs the error, the record is pushed neither to
\* deleted nor to toKeep, and writeDB(toKeep) writes the document without it.
SDeleteUnlinkThrows(name) ==
  /\ Len(sreqs) < MaxServeReqs
  /\ ioFailures < MaxFailures
  /\ disk[name] # 0
  /\ LET images == ServeReadDB(dbJson)
     IN /\ FindIndex(images, name) > 0
        /\ dbJson' = ServeWriteDB(Kept(images, name), "written")
        /\ sreqs' = Append(sreqs,
             [kind |-> "delete", name |-> name,
              payload |-> [bytes |-> 0, type |-> ""], pc |-> "done",
              status |-> "nothing", writeFailed |-> FALSE])
  /\ ioFailures' = ioFailures + 1
  /\ UNCHANGED <<xreqs, clock, disk, doc, writeQueue, reqs, reader, poolVars, sideVars>>

\* new Date() moves on while serve.mjs runs.
STick ==
  /\ clock < MaxTime
  /\ clock' = clock + 1
  /\ UNCHANGED <<disk, doc, writeQueue, reqs, ioFailures, reader, poolVars, expressVars, sideVars>>

ServeInit == PoolIdle /\ RouteIdle

ServeNext ==
  \/ \E n \in Names : SNewUpload(n)
  \/ \E q \in 1..Len(sreqs) : SMulter(q)
  \/ \E q \in 1..Len(sreqs) : \E o \in WriteOutcomes : SUpload(q, o)
  \/ \E n \in Names : \E o \in WriteOutcomes : SDelete(n, o)
  \/ \E n \in Names : SDeleteUnlinkThrows(n)
  \/ STick

ServeSpec == ServeInit /\ [][ServeNext]_vars

\* ------------------------------------------------ claims on lib/db.ts
\* C2: the read-modify-write sections of upsert and deleteByFilenames never
\* overlap: at most one callback is between its readDb and the end of its
\* writeDb, and a callback has started only after every earlier one settled.
C2_SectionsNeverOverlap ==
  /\ \A j, k \in 1..Len(writeQueue) :
       (j # k /\ InSection(writeQueue[j])) => ~InSection(writeQueue[k])
  /\ \A j, k \in 1..Len(writeQueue) :
       (j < k /\ writeQueue[k].ran) => Settled(writeQueue[j])

\* One callback is about to write the document while a later caller has
\* already submitted its own and waits.
C2_Witness ==
  \E j, k \in 1..Len(writeQueue) :
    /\ j < k
    /\ writeQueue[j].pc = "write"
    /\ writeQueue[k].pc = "queued"

\* C4: a callback that fails rejects only its own caller's promise; the
\* callbacks queued after it still run (an entry of the chain rejects only
\* when its own callback ran and threw).
C4_LaterWritesStillRun ==
  \A k \in 1..Len(writeQueue) :
    writeQueue[k].pc = "rejected" => writeQueue[k].ran

\* The last complete document holds a record of n (a write in progress has
\* not replaced it yet).
Stored(d, n) == d.state \in {"ok", "writing"} /\ d.images[n].present

\* The step of an upsert callback that commits the record of name n.
UpsertCommits(k, n) ==
  /\ writeQueue[k].kind = "upsert"
  /\ writeQueue[k].meta.filename = n
  /\ writeQueue[k].pc = "writing"
  /\ writeQueue'[k].pc = "fulfilled"

\* db.upsert alone keeps createdAt: a step that leaves a filename with a
\* record keeps its createdAt; the record changes only when a write commits,
\* after an upsert of the filename it carries the size and mime of the upsert,
\* and an upsert that read no record commits createdAt = updatedAt.
UpsertStep(n) ==
  /\ (Stored(doc, n) /\ Stored(doc', n)) =>
       /\ doc'.images[n].createdAt = doc.images[n].createdAt
       /\ doc'.images[n].updatedAt >= doc.images[n].updatedAt
  /\ (Stored(doc', n) /\ doc'.images[n] # doc.images[n]) =>
       \E k \in 1..Len(writeQueue) :
         /\ writeQueue[k].pc = "writing"
         /\ writeQueue'[k].pc = "fulfilled"
  /\ \A k \in 1..Len(writeQueue) :
       UpsertCommits(k, n) =>
         /\ doc'.images[n].size = writeQueue[k].meta.size
         /\ doc'.images[n].mime = writeQueue[k].meta.mime
         /\ doc'.images[n].url = toPublicUrl(n)
  /\ \A k \in 1..Len(writeQueue) :
       (UpsertCommits(k, n) /\ ~writeQueue[k].hadRecord) =>
         doc'.images[n].createdAt = doc'.images[n].updatedAt

UpsertKeepsCreatedAt == [][\A n \in Names : UpsertStep(n)]_vars

\* ------------------------------------------- claims on the Next.js routes
\* C10: an upload is reported uploaded exactly when no record of the filename
\* existed before it and overwritten exactly when one existed, whether
\* "before" is read as the arrival of the request or as the start of its
\* upsert.
C10_StatusTellsPriorRecord ==
  \A q \in 1..Len(reqs) :
    (reqs[q].kind = "upload" /\ reqs[q].pc = "done") =>
      /\ reqs[q].status = "uploaded" =>
           ~(reqs[q].recAtStart /\ writeQueue[reqs[q].op].hadRecord)
      /\ reqs[q].status = "overwritten" =>
           (reqs[q].recAtStart \/ writeQueue[reqs[q].op].hadRecord)

\* ------------------------------------- claims on the Express backend
XSucceeded(q) ==
  xreqs[q].pc = "done" /\ xreqs[q].status \in {"uploaded", "overwritten"}

\* C3: when the requests in flight have distinct filenames and every one
\* returned success, every uploaded file has its record in db.json.
C3_NoLostRecord ==
  ( /\ \A q \in 1..Len(xreqs) : XSucceeded(q)
    /\ \A p, q \in 1..Len(xreqs) : p # q => xreqs[p].name # xreqs[q].name )
  => \A q \in 1..Len(xreqs) :
       FindIndex(readDB(dbJson), xreqs[q].name) > 0

\* C9: an upload whose filename is already stored and whose overwrite field
\* is false is, when the backend answers 200, answered skipped and has
\* stored nothing.
C9_ExistingFileSkipped ==
  \A q \in 1..Len(xreqs) :
    ( /\ xreqs[q].kind = "upload"
      /\ xreqs[q].pc = "done"
      /\ xreqs[q].status # "error500"
      /\ ~xreqs[q].overwrite
      /\ xreqs[q].fileAtStart # 0 ) =>
      (xreqs[q].status = "skipped" /\ ~xreqs[q].stored)

\* The records of db.json with filename name.
RecordsOf(name) ==
  {i \in 1..Len(readDB(dbJson)) : readDB(dbJson)[i].filename = name}

\* C8: when a filename was uploaded exactly twice, the first upload with the
\* earlier timestamp, and both uploads succeeded, db.json holds exactly one
\* record of it, with the createdAt of the first upload, the updatedAt of the
\* second and the size and type of the second payload.
C8_SecondUploadKeepsCreatedAt ==
  \A p, q \in 1..Len(xreqs) :
    ( /\ p < q
      /\ xreqs[p].name = xreqs[q].name
      /\ \A r \in 1..Len(xreqs) :
           r \notin {p, q} => xreqs[r].name # xreqs[p].name
      /\ \A r \in 1..Len(xreqs) : xreqs[r].pc = "done"
      /\ XSucceeded(p) /\ XSucceeded(q)
      /\ xreqs[p].now < xreqs[q].now ) =>
      /\ Cardinality(RecordsOf(xreqs[p].name)) = 1
      /\ \A i \in RecordsOf(xreqs[p].name) :
           /\ readDB(dbJson)[i].createdAt = xreqs[p].now
           /\ readDB(dbJson)[i].updatedAt = xreqs[q].now
           /\ readDB(dbJson)[i].size = xreqs[q].payload.bytes
           /\ readDB(dbJson)[i].type = xreqs[q].payload.type

\* C11: an upload whose storage write or store upsert failed is reported
\* with status error (and the description of the failure).
C11_FailureReportedAsError ==
  \A q \in 1..Len(reqs) :
    (reqs[q].kind = "upload" /\ reqs[q].pc = "done" /\ reqs[q].error = "EIO") =>
      reqs[q].status = "error"

\* An upload request that stored its file and whose upsert fulfilled.
Stored200(q) ==
  /\ reqs[q].kind = "upload"
  /\ reqs[q].pc = "done"
  /\ reqs[q].status \in {"uploaded", "overwritten"}

\* C13: when two uploads of one filename have both finished with success and
\* no other request names that filename, there is a record of it and it has
\* the size and mime of the upload whose upsert ran last.
C13_LastUpsertWins ==
  \A p, q \in 1..Len(reqs) :
    ( /\ Stored200(p) /\ Stored200(q)
      /\ reqs[p].names = reqs[q].names
      /\ reqs[p].op < reqs[q].op
      /\ \A r \in 1..Len(reqs) :
           r \notin {p, q} => reqs[r].names[1] # reqs[p].names[1]
      /\ doc.state # "torn" ) =>
      /\ Stored(doc, reqs[q].names[1])
      /\ doc.images[reqs[q].names[1]].size = reqs[q].payload.bytes
      /\ doc.images[reqs[q].names[1]].mime =
           MetaOf(reqs[q].names[1], reqs[q].payload).mime

\* Two uploads of one filename that both found no file (so both were in
\* flight together) and carried different payloads have finished.
C13_Witness ==
  \E p, q \in 1..Len(reqs) :
    /\ p # q
    /\ Stored200(p) /\ Stored200(q)
    /\ reqs[p].names = reqs[q].names
    /\ reqs[p].status = "uploaded" /\ reqs[q].status = "uploaded"
    /\ reqs[p].payload # reqs[q].payload
    /\ reqs[p].op < reqs[q].op
    /\ HasRecord(doc, reqs[q].names[1])
    /\ doc.images[reqs[q].names[1]].size = reqs[q].payload.bytes

\* C14: a failed document write leaves the complete document that was there
\* before: the persisted document is never a truncated one.
C14_FailedWriteKeepsDocument == doc.state # "torn"

\* C15: without any I/O failure, getAll never finds a document it cannot
\* parse, also while queued writes execute.
C15_GetAllSeesCompleteDocument ==
  ioFailures = 0 => reader.result # "unparseable"

\* C18: the mapping deleteByFilenames returns gives true for a name exactly
\* when a record of it existed when the operation read the document, and
\* false exactly when none existed.
C18_TrueIffRecordExisted ==
  \A k \in 1..Len(writeQueue) :
    (writeQueue[k].kind = "delete" /\ writeQueue[k].pc = "fulfilled") =>
      \A j \in 1..Len(writeQueue[k].names) :
        writeQueue[k].results[writeQueue[k].names[j]] =
          IF writeQueue[k].names[j] \in writeQueue[k].had THEN "true" ELSE "false"

\* C12: db.json and every handler's copy of it hold at most one record per
\* filename, after any interleaving of uploads, overwrites and deletes.
C12_OneRecordPerFilename ==
  \A n \in Names :
    /\ Cardinality({i \in 1..Len(dbJson.images) :
                      dbJson.images[i].filename = n}) <= 1
    /\ \A q \in 1..Len(xreqs) :
         Cardinality({i \in 1..Len(xreqs[q].db) :
                        xreqs[q].db[i].filename = n}) <= 1

\* A re-upload of a filename that had a record has finished as overwritten
\* and db.json holds one record of it.
C12_Witness ==
  \E q \in 1..Len(xreqs) :
    /\ xreqs[q].pc = "done"
    /\ xreqs[q].status = "overwritten"
    /\ xreqs[q].recAtStart
    /\ Cardinality(RecordsOf(xreqs[q].name)) = 1

\* C16: a request that found db.json unreadable is answered 500 (and so has
\* written nothing).
C16_UnreadableDocumentAborts ==
  \A q \in 1..Len(xreqs) :
    (xreqs[q].pc = "done" /\ xreqs[q].unreadable) => xreqs[q].status = "error500"

C20_OrphanFileRemoved ==
  \A q \in 1..Len(xreqs) :
    ( /\ xreqs[q].kind = "delete"
      /\ xreqs[q].pc = "done"
      /\ xreqs[q].status # "error500"
      /\ q = Len(xreqs)
      /\ xreqs[q].quietAtStart
      /\ xreqs[q].fileAtStart # 0
      /\ ~xreqs[q].recAtStart )
    => disk[xreqs[q].name] = 0

\* ------------------------------------------- claims on scripts/serve.mjs
\* C17: an upload whose write of the metadata document failed is not
\* answered uploaded or overwritten.
C17_FailedWriteNotReportedStored ==
  \A q \in 1..Len(sreqs) :
    (sreqs[q].kind = "upload" /\ sreqs[q].pc = "done" /\ sreqs[q].writeFailed) =>
      sreqs[q].status \notin {"uploaded", "overwritten"}

\* ------------------------------------------- lib/filename.ts: sanitizeFilename
\* Characters of the names passed to sanitizeFilename: a letter, the dot,
\* the underscore, the two path separators and a blank.
FileNameChars == {"a", ".", "_", "/", "\\", " "}

\* Strings are sequences of characters.
NameTexts == UNION {[1..n -> FileNameChars] : n \in 0..MaxNameLen}

\* The characters the class [a-zA-Z0-9._-] matches, among those the model
\* writes.
SafeChars == {"a", "e", "f", "i", "l", ".", "_", "-"}

\* s.split(sep).pop(): what follows the last sep, s itself without one.
SplitPop(s, sep) ==
  LET at == {i \in 1..Len(s) : s[i] = sep}
  IN IF at = {} THEN s
     ELSE SubSeq(s, (CHOOSE i \in at : \A j \in at : j <= i) + 1, Len(s))

\* base.replace(/[^a-zA-Z0-9._-]/g, "_")
ReplaceUnsafe(base) ==
  [i \in 1..Len(base) |-> IF base[i] \in SafeChars THEN base[i] ELSE "_"]

\* A replace that removes the first underscore only.
StripOneUnderscore(s) == IF s # <<>> /\ Head(s) = "_" THEN Tail(s) ELSE s

\* cleaned.replace(/^_+/, "")
RECURSIVE StripLeadingUnderscores(_)
StripLeadingUnderscores(s) ==
  IF s # <<>> /\ Head(s) = "_" THEN StripLeadingUnderscores(Tail(s)) ELSE s

\* String.prototype.trim on a sequence of characters.
RECURSIVE TrimStart(_)
TrimStart(s) == IF s # <<>> /\ Head(s) = " " THEN TrimStart(Tail(s)) ELSE s

RECURSIVE TrimEnd(_)
TrimEnd(s) ==
  IF s # <<>> /\ s[Len(s)] = " " THEN TrimEnd(SubSeq(s, 1, Len(s) - 1)) ELSE s

Trim(s) == TrimEnd(TrimStart(s))

\* sanitizeFilename(name)
sanitizeFilename(name) ==
  LET base == SplitPop(SplitPop(name, "/"), "\\")
      cleaned == ReplaceUnsafe(base)
      finalName == Trim(StripLeadingUnderscores(cleaned))
  IN IF finalName = <<>> THEN <<"f", "i", "l", "e">> ELSE finalName

\* getUploadsDir(): the directory the uploads are kept in.
getUploadsDir == <<"/", "t", "m", "p", "/", "u", "p", "l", "o", "a", "d", "s">>

\* getSafeFilePath(filename): the sanitized name joined to the directory.
getSafeFilePath(filename) ==
  LET safe == sanitizeFilename(filename)
  IN getUploadsDir \o <<"/">> \o safe

\* toPublicUrl(filename) on a name written as characters: the sanitized
\* name behind the prefix of the file route.
PublicUrlPrefix == <<"/", "a", "p", "i", "/", "i", "m", "a", "g", "e", "s", "/", "f", "i", "l", "e", "/">>

toPublicUrlOfText(filename) ==
  LET safe == sanitizeFilename(filename)
  IN PublicUrlPrefix \o safe

\* A caller is about to pass a name to sanitizeFilename.
SanitizeInit ==
  /\ PoolIdle
  /\ StoresIdle
  /\ lreqs = <<>>
  /\ TableIdle
  /\ \E name \in NameTexts :
       sanitizeCall = [name |-> name, result |-> <<>>, returned |-> FALSE]

\* The call returns.
SanitizeReturn ==
  /\ ~sanitizeCall.returned
  /\ sanitizeCall' = [sanitizeCall EXCEPT
                        !.result = sanitizeFilename(sanitizeCall.name),
                        !.returned = TRUE]
  /\ UNCHANGED <<lreqs, imageTable, poolVars, routeVars, expressVars>>

SanitizeNext == SanitizeReturn

SanitizeSpec == SanitizeInit /\ [][SanitizeNext]_vars

\* ------------------------------- ImageTable and Gallery: the filtered rows
\* Characters of the fields and of the filter: a letter in both cases and
\* another letter.
TableChars == {"a", "A", "p"}

\* ch.toLowerCase()
LowerChar(ch) == IF ch = "A" THEN "a" ELSE ch

\* s.toLowerCase()
ToLowerCase(s) == [i \in 1..Len(s) |-> LowerChar(s[i])]

\* s.includes(f)
Includes(s, f) ==
  \E i \in 0..(Len(s) - Len(f)) : SubSeq(s, i + 1, i + Len(f)) = f

\* The rows GET /images can return: url ends with the filename; mime and
\* type are optional (the empty text stands for an absent field).
ImageRows ==
  {[filename |-> <<c>>, url |-> <<"/", c>>, mime |-> m, type |-> t] :
     c \in TableChars, m \in {<<>>, <<"p">>}, t \in {<<>>, <<"p">>, <<"A">>}}

ImageLists == UNION {[1..n -> ImageRows] : n \in 0..MaxRows}

FilterTexts == UNION {[1..n -> TableChars] : n \in 0..MaxFilterLen}

\* The callback of images.filter(...).
FilterCallback(i, filter) ==
  IF filter = <<>> THEN TRUE
  ELSE LET f == ToLowerCase(filter)
       IN \/ Includes(ToLowerCase(i.filename), f)
          \/ Includes(ToLowerCase(i.url), f)
          \/ Includes(ToLowerCase(i.mime), f)
          \/ Includes(ToLowerCase(i.type), f)

\* const filtered = images.filter(...), computed at every render.
Filtered(images, filter) ==
  SelectSeq(images, LAMBDA i : FilterCallback(i, filter))

\* The list has loaded and the filter is still empty.
TableInit ==
  /\ PoolIdle
  /\ StoresIdle
  /\ lreqs = <<>>
  /\ SanitizeIdle
  /\ \E images \in ImageLists :
       imageTable = [images |-> images, filter |-> <<>>,
                     filtered |-> Filtered(images, <<>>)]

\* onChange of the filter input: setFilter(e.target.value) and the render
\* that follows.
SetFilter(text) ==
  /\ imageTable' = [imageTable EXCEPT
                      !.filter = text,
                      !.filtered = Filtered(imageTable.images, text)]
  /\ UNCHANGED <<lreqs, sanitizeCall, poolVars, routeVars, expressVars>>

TableNext == \E text \in FilterTexts : SetFilter(text)

TableSpec == TableInit /\ [][TableNext]_vars

\* --------------------------------- lowdb server (server.ts): POST /delete
\* The texts a client puts into items, as sequences of their parts: a
\* filename, the absolute URL of a file, two filenames joined by a comma,
\* and a blank string.
ItemTexts ==
  {<<n>> : n \in Names} \cup {ExternalUrl(n) : n \in Names}
    \cup {<<"a.png", ",", "b.png">>, <<" ">>}

ItemLists == UNION {[1..n -> ItemTexts] : n \in 0..MaxItems}

\* new URL(item) parses: the text starts with a scheme and a host.
IsAbsoluteUrl(item) == item # <<>> /\ Head(item) = "http://host"

\* path.basename(new URL(item).pathname): the last segment of the path,
\* empty for the path "/".
UrlBasename(item) ==
  LET pathname == Tail(item)
  IN IF pathname = <<>> THEN <<>>
     ELSE IF pathname[Len(pathname)] = "/files/" THEN <<"files">>
     ELSE <<pathname[Len(pathname)]>>

\* toFilename(item): decodeURIComponent(basename) of an absolute URL, the
\* trimmed item otherwise (no name of the model holds an escaped character).
toFilename(item) ==
  IF IsAbsoluteUrl(item) THEN UrlBasename(item) ELSE Trim(item)

\* Array.from(new Set(seq)): the members in the order of their first
\* occurrence.
RECURSIVE FromSet(_)
FromSet(seq) ==
  IF seq = <<>> THEN <<>>
  ELSE LET init == SubSeq(seq, 1, Len(seq) - 1)
           last == seq[Len(seq)]
       IN IF \E i \in 1..Len(init) : init[i] = last
            THEN FromSet(init)
            ELSE Append(FromSet(init), last)

\* rawItems.map(toFilename).filter(Boolean), made unique.
ResolvedFilenames(items) ==
  FromSet(SelectSeq([i \in 1..Len(items) |-> toFilename(items[i])],
                    LAMBDA t : t # <<>>))

\* The stored name a text spells, "" when it spells none.
NameOf(text) ==
  IF Len(text) = 1 /\ text[1] \in Names THEN text[1] ELSE ""

\* UPLOADS_DIR and DB_PATH with their defaults, as sequences of segments; a
\* segment is a sequence of parts.
UPLOADS_DIR == << <<"tmp">>, <<"uploads">> >>

DB_PATH == << <<"tmp">>, <<"data">>, <<"db.json">> >>

\* The files outside the uploads directory the model keeps track of: the
\* metadata document and a file next to the two directories.
OutsideFiles == {"/tmp/data/db.json", "/tmp/notes.txt"}

\* The path of a file of disk: an outside file by its own path, a stored
\* name directly inside the uploads directory.
PathOf(key) ==
  CASE key = "/tmp/data/db.json" -> DB_PATH
    [] key = "/tmp/notes.txt" -> << <<"tmp">>, <<"notes.txt">> >>
    [] OTHER -> Append(UPLOADS_DIR, <<key>>)

\* text.split("/"): the segments between the slashes.
RECURSIVE SplitSlash(_)
SplitSlash(text) ==
  LET at == {i \in 1..Len(text) : text[i] = "/"}
  IN IF at = {} THEN <<text>>
     ELSE LET i == CHOOSE x \in at : \A y \in at : x <= y
          IN <<SubSeq(text, 1, i - 1)>> \o SplitSlash(SubSeq(text, i + 1, Len(text)))

\* path.normalize on segments: empty and "." segments are dropped, ".."
\* removes the segment before it.
RECURSIVE Normalize(_, _)
Normalize(segs, acc) ==
  IF segs = <<>> THEN acc
  ELSE LET seg == Head(segs)
       IN Normalize(Tail(segs),
            IF seg = <<>> \/ seg = <<".">> THEN acc
            ELSE IF seg = <<"..">>
              THEN IF acc = <<>> THEN acc ELSE SubSeq(acc, 1, Len(acc) - 1)
              ELSE Append(acc, seg))

\* path.join(dir, name)
PathJoin(dir, name) == Normalize(dir \o SplitSlash(name), <<>>)

\* The body of filenames.forEach: unlinkSync of the file at
\* path.join(UPLOADS_DIR, name) when it exists (an error is caught and
\* logged), removal of the record and write() of the document, which is there
\* again afterwards, one entry of the report.
RECURSIVE LowDeleteLoop(_, _, _, _, _, _)
LowDeleteLoop(filenames, j, images, dir, results, unlinkThrows) ==
  IF j > Len(filenames)
    THEN [images |-> images, files |-> dir, results |-> results]
    ELSE LET n == NameOf(filenames[j])
             filePath == PathJoin(UPLOADS_DIR, filenames[j])
             keys == {k \in DOMAIN dir : PathOf(k) = filePath}
             exists == \E k \in keys : dir[k] # 0
             fileDeleted == exists /\ ~unlinkThrows
             hadRecord == FindIndex(images, n) > 0
             unlinked == [k \in DOMAIN dir |->
                            IF fileDeleted /\ k \in keys THEN 0 ELSE dir[k]]
             written == [k \in DOMAIN dir |->
                           IF PathOf(k) = DB_PATH THEN 1 ELSE unlinked[k]]
         IN LowDeleteLoop(filenames, j + 1, Kept(images, n), written,
              Append(results, [filename |-> filenames[j],
                               fileDeleted |-> fileDeleted,
                               recordDeleted |-> hadRecord]),
              unlinkThrows)

\* The names with a file and a record.
StoredNames ==
  {n \in Names : disk[n] # 0 /\ FindIndex(readDB(dbJson), n) > 0}

\* POST /delete of the lowdb server: a synchronous handler. 400 when items is
\* missing or empty, else the report of the loop over the unique filenames.
LowDelete(items, unlinkThrows) ==
  /\ Len(lreqs) < MaxBulkReqs
  /\ unlinkThrows => ioFailures < MaxFailures
  /\ ioFailures' = IF unlinkThrows THEN ioFailures + 1 ELSE ioFailures
  /\ IF Len(items) = 0
       THEN /\ lreqs' = Append(lreqs,
                 [items |-> items, status |-> "bad400", filenames |-> <<>>,
                  deleted |-> <<>>, storedAtStart |-> StoredNames])
            /\ UNCHANGED <<dbJson, disk>>
       ELSE LET filenames == ResolvedFilenames(items)
                r == LowDeleteLoop(filenames, 1, dbJson.images, disk, <<>>,
                                   unlinkThrows)
            IN /\ lreqs' = Append(lreqs,
                    [items |-> items, status |-> "ok200",
                     filenames |-> filenames, deleted |-> r.results,
                     storedAtStart |-> StoredNames])
               /\ dbJson' = [dbJson EXCEPT !.images = r.images]
               /\ disk' = r.files
  /\ UNCHANGED <<xreqs, sreqs, clock, doc, writeQueue, reqs, reader,
                 sanitizeCall, imageTable, poolVars>>

\* A record as the upload handlers of the Express backends store it.
StoredRecord(name) ==
  [filename |-> name, size |-> 1, type |-> "image/png",
   createdAt |-> 0, updatedAt |-> 0]

\* The orders in which earlier uploads can have stored images.
StoredLists ==
  {l \in UNION {[1..n -> Names] : n \in 0..Cardinality(Names)} :
     \A i, j \in 1..Len(l) : l[i] = l[j] => i = j}

\* A server started on what earlier uploads stored: the images of some
\* names, each with its file and its record.
StoredInit ==
  /\ PoolIdle
  /\ lreqs = <<>>
  /\ SanitizeIdle
  /\ TableIdle
  /\ xreqs = <<>>
  /\ sreqs = <<>>
  /\ reader = [pc |-> "idle", result |-> "none"]
  /\ clock = 0
  /\ doc = [state |-> "missing", images |-> [n \in Names |-> NoRec]]
  /\ writeQueue = <<>>
  /\ reqs = <<>>
  /\ ioFailures = 0
  /\ \E l \in StoredLists :
       /\ dbJson = [state |-> "ok",
                    images |-> [i \in 1..Len(l) |-> StoredRecord(l[i])]]
       /\ disk = [n \in Names |->
                    IF \E i \in 1..Len(l) : l[i] = n THEN 1 ELSE 0]

LowdbNext ==
  \E items \in ItemLists : \E unlinkThrows \in BOOLEAN :
    LowDelete(items, unlinkThrows)

LowdbSpec == StoredInit /\ [][LowdbNext]_vars

\* Items that are paths: a filename, a path to the metadata document, a path
\* to a file next to the directories, and a name behind "./".
PathItemTexts ==
  {<<n>> : n \in Names}
    \cup {<<"..", "/", "data", "/", "db.json">>, <<"..", "/", "notes.txt">>,
          <<".", "/", "a.png">>}

PathItemLists == UNION {[1..n -> PathItemTexts] : n \in 0..MaxPathItems}

\* A server started on what earlier uploads stored, with the metadata
\* document and the other outside file in place.
PathStoredInit ==
  /\ PoolIdle
  /\ lreqs = <<>>
  /\ SanitizeIdle
  /\ TableIdle
  /\ xreqs = <<>>
  /\ sreqs = <<>>
  /\ reader = [pc |-> "idle", result |-> "none"]
  /\ clock = 0
  /\ doc = [state |-> "missing", images |-> [n \in Names |-> NoRec]]
  /\ writeQueue = <<>>
  /\ reqs = <<>>
  /\ ioFailures = 0
  /\ \E l \in StoredLists :
       /\ dbJson = [state |-> "ok",
                    images |-> [i \in 1..Len(l) |-> StoredRecord(l[i])]]
       /\ disk = [k \in Names \cup OutsideFiles |->
                    IF k \in OutsideFiles \/ \E i \in 1..Len(l) : l[i] = k
                      THEN 1 ELSE 0]

PathDeleteNext ==
  \E items \in PathItemLists : \E unlinkThrows \in BOOLEAN :
    LowDelete(items, unlinkThrows)

PathDeleteSpec == PathStoredInit /\ [][PathDeleteNext]_vars

\* ------------------------------- Express backend (server.js): POST /delete
\* s.split(",") on a text: the pieces between the comma parts.
RECURSIVE SplitComma(_, _)
SplitComma(s, piece) ==
  IF s = <<>> THEN <<piece>>
  ELSE IF Head(s) = "," THEN <<piece>> \o SplitComma(Tail(s), <<>>)
  ELSE SplitComma(Tail(s), Append(piece, Head(s)))

\* add(v) of collectTargets for a string v: the texts it adds to targets.
\* The trimmed string is added as it is, or split at its commas; the
\* strings of the model do not spell a JSON array.
AddString(v) ==
  LET t == Trim(v)
  IN IF t = <<>> THEN {}
     ELSE IF \E i \in 1..Len(t) : t[i] = ","
       THEN LET pieces == SplitComma(t, <<>>)
            IN {Trim(pieces[i]) : i \in 1..Len(pieces)} \ {<<>>}
       ELSE {t}

\* collectTargets(req) for a body { items: [...] }: add(b.items) adds every
\* element; the other fields are absent.
collectTargets(items) == UNION {AddString(items[i]) : i \in 1..Len(items)}

\* POST /delete arrives: collectTargets, then 400 when there is no target,
\* else deleteByTargets is called and awaits readDB().
XPostDelete(items) ==
  /\ Len(xreqs) < MaxPostDeletes
  /\ LET targets == collectTargets(items)
     IN xreqs' = Append(xreqs,
          [kind |-> "bulk", items |-> items, targets |-> targets,
           pc |-> IF targets = {} THEN "done" ELSE "readDB",
           status |-> IF targets = {} THEN "bad400" ELSE "",
           db |-> <<>>, j |-> 0, kept |-> <<>>, deleted |-> <<>>,
           storedAtStart |-> StoredNames])
  /\ UNCHANGED <<dbJson, routeVars, sreqs, poolVars, sideVars>>

\* deleteByTargets: readDB() returns the document the loop walks.
XBulkRead(q) ==
  /\ xreqs[q].kind = "bulk"
  /\ xreqs[q].pc = "readDB"
  /\ xreqs' = [xreqs EXCEPT ![q].db = readDB(dbJson), ![q].j = 1,
                            ![q].pc = "loop"]
  /\ UNCHANGED <<dbJson, routeVars, sreqs, poolVars, sideVars>>

\* One round of for (const it of db.images): a record whose filename is a
\* target has its file unlinked (errors ignored) and is listed as deleted,
\* any other record is kept.
XBulkLoop(q) ==
  /\ xreqs[q].pc = "loop"
  /\ xreqs[q].j <= Len(xreqs[q].db)
  /\ LET it == xreqs[q].db[xreqs[q].j]
     IN IF <<it.filename>> \in xreqs[q].targets
          THEN /\ disk' = [disk EXCEPT ![it.filename] = 0]
               /\ xreqs' = [xreqs EXCEPT ![q].j = @ + 1,
                                         ![q].deleted = Append(@, it.filename)]
          ELSE /\ disk' = disk
               /\ xreqs' = [xreqs EXCEPT ![q].j = @ + 1,
                                         ![q].kept = Append(@, it)]
  /\ UNCHANGED <<dbJson, clock, doc, writeQueue, reqs, ioFailures, reader, sreqs, poolVars, sideVars>>

\* After the loop: db.images = kept and writeDB(db) is called; the reply
\* that follows it lists the deleted filenames.
XBulkLoopEnd(q) ==
  /\ xreqs[q].pc = "loop"
  /\ xreqs[q].j > Len(xreqs[q].db)
  /\ xreqs' = [xreqs EXCEPT ![q].db = xreqs[q].kept, ![q].status = "ok200",
                            ![q].pc = "writeDB"]
  /\ UNCHANGED <<dbJson, routeVars, sreqs, poolVars, sideVars>>

PostDeleteNext ==
  \/ \E items \in ItemLists : XPostDelete(items)
  \/ \E q \in 1..Len(xreqs) : XBulkRead(q)
  \/ \E q \in 1..Len(xreqs) : XBulkLoop(q)
  \/ \E q \in 1..Len(xreqs) : XBulkLoopEnd(q)
  \/ \E q \in 1..Len(xreqs) : XWriteDBBegin(q)
  \/ \E q \in 1..Len(xreqs) : XWriteDB(q)
  \/ \E q \in 1..Len(xreqs) : \E torn \in BOOLEAN : XFails(q, torn)

PostDeleteSpec == StoredInit /\ [][PostDeleteNext]_vars

\* ------------------------- Next.js delete route: filenames and urls lists
\* filenames lists of the body, the absent list included.
BodyFilenames == {<<>>} \cup DeleteArgs

\* urls lists of the body: public urls of names, the absent list included.
BodyUrls == UNION {[1..n -> {toPublicUrl(m) : m \in Names}] : n \in 0..MaxDeleteUrls}

\* db.filenamesFromUrls(urls): the filename of the record with that url, for
\* every url that has one, read from the document by getAll.
filenamesFromUrls(urls, images) ==
  LET hit(u) == {n \in Names : images[n].present /\ images[n].url = u}
      known == SelectSeq(urls, LAMBDA u : hit(u) # {})
  IN [i \in 1..Len(known) |-> CHOOSE n \in hit(known[i]) : TRUE]

\* The names with a file in the uploads directory and a record in
\* images.json.
RouteStoredNames ==
  {n \in Names : disk[n] # 0 /\ doc.state = "ok" /\ doc.images[n].present}

\* POST delete arrives with filenames and urls: the two lists are resolved
\* and concatenated (names of the model are their own sanitized form); 400
\* when the result is empty, else the unlink loop starts.
NewBulkDelete(filenames, urls) ==
  /\ Len(reqs) < MaxRouteDeletes
  /\ doc.state = "ok"
  /\ LET names == filenames \o filenamesFromUrls(urls, doc.images)
         req == [storedAtStart |-> RouteStoredNames] @@
                NewReq("delete", names, [bytes |-> 0, type |-> ""], FALSE)
     IN reqs' = Append(reqs,
          IF names = <<>>
            THEN [req EXCEPT !.pc = "done", !.status = "bad400"]
            ELSE req)
  /\ UNCHANGED <<clock, disk, doc, writeQueue, ioFailures, reader, poolVars, expressVars, sideVars>>

\* The Next.js server started on what earlier uploads stored.
RouteStoredInit ==
  /\ PoolIdle
  /\ lreqs = <<>>
  /\ SanitizeIdle
  /\ TableIdle
  /\ dbJson = [state |-> "ok", images |-> <<>>]
  /\ xreqs = <<>>
  /\ sreqs = <<>>
  /\ reader = [pc |-> "idle", result |-> "none"]
  /\ clock = 0
  /\ writeQueue = <<>>
  /\ reqs = <<>>
  /\ ioFailures = 0
  /\ \E S \in SUBSET Names :
       /\ disk = [n \in Names |-> IF n \in S THEN 1 ELSE 0]
       /\ doc = [state |-> "ok",
                 images |-> [n \in Names |->
                   IF n \in S
                     THEN UpsertRecord(NoRec, MetaOf(n, PayloadOf(1)), 0)
                     ELSE NoRec]]

BulkDeleteNext ==
  \/ \E f \in BodyFilenames : \E u \in BodyUrls : NewBulkDelete(f, u)
  \/ \E q \in 1..Len(reqs) : DeleteUnlink(q)
  \/ \E q \in 1..Len(reqs) : DeleteUnlinkFails(q)
  \/ \E q \in 1..Len(reqs) : DeleteRespond(q)
  \/ \E k \in 1..Len(writeQueue) : OpStart(k)
  \/ \E k \in 1..Len(writeQueue) : OpRead(k)
  \/ \E k \in 1..Len(writeQueue) : OpWriteBegin(k)
  \/ \E k \in 1..Len(writeQueue) : OpWrite(k)
  \/ \E k \in 1..Len(writeQueue) : \E torn \in BOOLEAN : OpFails(k, torn)

BulkDeleteSpec == RouteStoredInit /\ [][BulkDeleteNext]_vars

\* ------------------------------------------- more claims about the pool
Distinct(seq) == \A i, j \in 1..Len(seq) : seq[i] = seq[j] => i = j

\* C24: after each dispatch step of runWithConcurrency, whenever an input
\* file is still undispatched the number of active workers (dispatched and
\* not yet completed) equals the limit: the pool never idles while there is
\* capacity and work.
C24_NeverIdlesWithWork ==
  \A r \in 1..Len(runs) :
    runs[r].idx < Len(runs[r].items) =>
      /\ runs[r].active = runs[r].limit
      /\ Cardinality(ActiveWorkers(runs[r])) = runs[r].limit

\* A slot was released and refilled while another file still waits.
C24_Witness ==
  \E r \in 1..Len(runs) :
    /\ runs[r].idx < Len(runs[r].items)
    /\ \E i \in 1..Len(runs[r].items) : runs[r].w[i] = "done"
    /\ Cardinality(ActiveWorkers(runs[r])) = runs[r].limit

\* The status shown for item i of a run agrees with the position of its
\* worker.
StatusFollowsWorker(run, i) ==
  LET st == statusMap[run.items[i]].status
  IN /\ run.w[i] = "queued" => st = "queued"
     /\ run.w[i] = "inflight" => st = "uploading"
     /\ run.w[i] \in {"recorded", "done"} => st \in TerminalStatuses

\* The only changes of the status of item i: queued -> uploading in the step
\* that dispatches its worker into a free slot, and uploading -> a terminal
\* status in the step that handles the settled worker.
StatusStep(i) ==
  LET n == runs[1].items[i]
  IN statusMap'[n] # statusMap[n] =>
       \/ /\ statusMap[n].status = "queued"
          /\ statusMap'[n].status = "uploading"
          /\ runs[1].w[i] = "queued"
          /\ runs'[1].w[i] = "inflight"
          /\ Cardinality(ActiveWorkers(runs'[1])) <= runs[1].limit
       \/ /\ statusMap[n].status = "uploading"
          /\ statusMap'[n].status \in TerminalStatuses
          /\ runs[1].w[i] = "inflight"
          /\ runs'[1].w[i] = "recorded"

\* C25: for every file of a batch with distinct names the status goes
\* queued -> uploading -> exactly one terminal status; uploading is set when
\* the worker is dispatched into a free slot and the terminal status only
\* after the worker settled.
C25_StatusLifecycle ==
  /\ [](Distinct(runs[1].items) =>
          \A i \in 1..Len(runs[1].items) : StatusFollowsWorker(runs[1], i))
  /\ [][Distinct(runs[1].items) =>
          \A i \in 1..Len(runs[1].items) : StatusStep(i)]_vars

\* Two distinct files, limit 1: the first has its terminal status and is
\* done, the second is uploading.
C25_Witness ==
  /\ Len(runs[1].items) >= 2
  /\ Distinct(runs[1].items)
  /\ runs[1].w[1] = "done"
  /\ statusMap[runs[1].items[1]].status \in TerminalStatuses
  /\ runs[1].w[2] = "inflight"
  /\ statusMap[runs[1].items[2]].status = "uploading"

\* The clamp of startUpload works on every number: a run whose limit is not
\* NaN has a limit of at least 1 and, when its batch is not empty, has
\* dispatched its first worker.
ClampHoldsForNumbers ==
  \A r \in 1..Len(runs) :
    ~IsNaN(runs[r].limit) =>
      /\ runs[r].limit >= 1
      /\ Len(runs[r].items) > 0 => runs[r].idx >= 1

\* C29: whatever the concurrency input was set to, the limit a batch runs
\* with is a number not below 1 and a non-empty batch has dispatched its
\* first worker.
C29_LimitAtLeastOne ==
  \A r \in 1..Len(runs) :
    /\ ~IsNaN(runs[r].limit)
    /\ runs[r].limit >= 1
    /\ Len(runs[r].items) > 0 => runs[r].idx >= 1

\* C30: runWithConcurrency on an empty list resolves at once with an empty
\* outcome sequence; nothing is dispatched, no status changes and no
\* request is in flight.
C30_EmptyBatchResolvesAtOnce ==
  \A r \in 1..Len(runs) :
    runs[r].items = <<>> =>
      /\ runs[r].resolves = 1
      /\ runs[r].results = <<>>
      /\ runs[r].idx = 0
      /\ runs[r].active = 0
      /\ inFlight = 0
      /\ completed = 0
      /\ \A n \in Names : statusMap[n] = NoEntry

\* The empty batch resolved and startUpload went on to count its outcomes.
C30_Witness ==
  \E r \in 1..Len(runs) :
    /\ runs[r].items = <<>>
    /\ runs[r].resolves = 1
    /\ runs[r].toast = <<0, 0, 0>>


\* C26: the list GET /images returns is ordered most recently updated
\* first: updatedAt does not grow along the sequence.
C26_ListNewestFirst ==
  LET list == GetImages(dbJson)
  IN \A i, j \in 1..Len(list) :
       i < j => list[i].updatedAt >= list[j].updatedAt

\* ------------------------------------------- claims about lib/filename.ts
\* C27: for every input, sanitizeFilename returns a non-empty name without a
\* path separator, made of characters of [a-zA-Z0-9._-] only, that does not
\* begin with a dot or an underscore.
C27_SanitizedNameIsSafe ==
  sanitizeCall.returned =>
    LET r == sanitizeCall.result
    IN /\ r # <<>>
       /\ \A i \in 1..Len(r) : r[i] \notin {"/", "\\"} /\ r[i] \in SafeChars
       /\ r[1] \notin {".", "_"}


\* ------------------------------------------ claims about the image list
\* s contains f, letter case ignored.
ContainsIgnoringCase(s, f) ==
  \E i \in 0..(Len(s) - Len(f)) :
    \A k \in 1..Len(f) : LowerChar(s[i + k]) = LowerChar(f[k])

LowdbDeletesEachNamedImageOnce ==
  \A q \in 1..Len(lreqs) :
    (ioFailures = 0 /\ q = Len(lreqs)) =>
      \A n \in lreqs[q].storedAtStart :
        (\E i \in 1..Len(lreqs[q].items) :
           lreqs[q].items[i] \in {ExternalUrl(n), <<n>>}) =>
          /\ lreqs[q].status = "ok200"
          /\ disk[n] = 0
          /\ FindIndex(readDB(dbJson), n) = 0
          /\ Cardinality({k \in 1..Len(lreqs[q].deleted) :
                            lreqs[q].deleted[k].filename = <<n>>}) = 1
          /\ \A k \in 1..Len(lreqs[q].deleted) :
               lreqs[q].deleted[k].filename = <<n>> =>
                 /\ lreqs[q].deleted[k].fileDeleted
                 /\ lreqs[q].deleted[k].recordDeleted

\* C21: a delete request that names a stored file more than once (twice as
\* filename, or as filename and as url) reports it once, as deleted: the
\* report of the Next.js route says deleted for the file and found for the
\* record.
C21_RepeatedNameReportedDeleted ==
  \A q \in 1..Len(reqs) :
    (reqs[q].kind = "delete" /\ reqs[q].pc = "done" /\ reqs[q].status = "ok"
       /\ ioFailures = 0) =>
      \A n \in reqs[q].storedAtStart :
        (\E i \in 1..Len(reqs[q].names) : reqs[q].names[i] = n) =>
          /\ reqs[q].perItem[n] = "true"
          /\ writeQueue[reqs[q].op].results[n] = "true"

\* C22: a bulk delete is answered 400 exactly when no filename is resolved
\* from its items (an items list whose elements all resolve to the empty
\* name included), and with a report otherwise.
C22_BadRequestIffNothingResolved ==
  \A q \in 1..Len(lreqs) :
    lreqs[q].status = "bad400" <=> ResolvedFilenames(lreqs[q].items) = <<>>


\* C23: an element of items that is the absolute URL of a stored image makes
\* POST /delete remove that image's file and its record.
C23_UrlItemDeletesImage ==
  \A q \in 1..Len(xreqs) :
    (xreqs[q].kind = "bulk" /\ xreqs[q].pc = "done" /\ ioFailures = 0
       /\ \A r \in 1..Len(xreqs) : r # q => xreqs[r].pc = "done") =>
      \A n \in xreqs[q].storedAtStart :
        (\E i \in 1..Len(xreqs[q].items) : xreqs[q].items[i] = ExternalUrl(n)) =>
          /\ xreqs[q].status = "ok200"
          /\ disk[n] = 0
          /\ FindIndex(readDB(dbJson), n) = 0


\* ------------------------------------- claims about the whole Uploader
\* Upload requests sent and not yet answered, over all batches.
RECURSIVE RequestsInFlight(_)
RequestsInFlight(r) ==
  IF r = 0 THEN 0
  ELSE RequestsInFlight(r - 1)
       + Cardinality({i \in 1..Len(runs[r].items) : runs[r].w[i] = "inflight"})

\* Workers dispatched whose finally handler has not run, over all batches.
RECURSIVE ActiveInAllRuns(_)
ActiveInAllRuns(r) ==
  IF r = 0 THEN 0
  ELSE ActiveInAllRuns(r - 1) + Cardinality(ActiveWorkers(runs[r]))

\* C31: over any sequence of picks and presses of Start Upload, also a
\* press while a batch still runs, the upload requests in flight at the same
\* time never exceed the configured limit (the largest limit a batch was
\* started with).
C31_RequestsWithinLimit ==
  \A r \in 1..Len(runs) :
    (\A o \in 1..Len(runs) : runs[o].limit <= runs[r].limit) =>
      RequestsInFlight(Len(runs)) <= runs[r].limit

\* C38: completed never exceeds the number of selected files, and inFlight
\* is the number of dispatched workers that have not completed, over any
\* sequence of picks and presses of Start Upload.
C38_CountersMatchBatch ==
  /\ completed <= Len(files)
  /\ inFlight = ActiveInAllRuns(Len(runs))


\* ------------------------------- more claims about the Next.js routes
\* No delete request was received.
OnlyUploads == \A q \in 1..Len(reqs) : reqs[q].kind = "upload"

\* C32: with overwrite=false a stored file is never replaced: of the upload
\* requests for one filename that come without overwrite, at most one
\* writes the file and reports uploaded (no delete in between).
C32_OneWriterWithoutOverwrite ==
  OnlyUploads =>
    \A q, r \in 1..Len(reqs) :
      (/\ q # r
       /\ reqs[q].names = reqs[r].names
       /\ ~reqs[q].overwrite /\ ~reqs[r].overwrite
       /\ reqs[q].status = "uploaded") =>
        reqs[r].status # "uploaded"

\* C34: whenever no upload is in flight, the size of every record is the
\* byte length of the file stored under its filename.
C34_RecordSizeIsFileLength ==
  (OnlyUploads /\ \A q \in 1..Len(reqs) : reqs[q].pc = "done") =>
    \A n \in Names :
      (doc.state = "ok" /\ doc.images[n].present) =>
        doc.images[n].size = disk[n]


\* ------------------------------------- more claims about lib/filename.ts
\* The last path segment of a path or URL written as characters.
LastSegment(p) == SplitPop(p, "/")

ReadStep == GetAllStart \/ GetAllInit \/ GetAllRead

\* C33: no step of db.getAll or db.filenamesFromUrls changes the persisted
\* records: a record in the document before a step of a read is in the
\* document after it, unchanged, also when the read began while there was no
\* document and an upsert was queued or executing.
C33_ReadsKeepRecords ==
  [][ReadStep =>
       \A n \in Names :
         HasRecord(doc, n) => HasRecord(doc', n) /\ doc'.images[n] = doc.images[n]]_vars

\* --------------------------------- more claims about the Next.js routes
\* C35: when every upload and delete request has been answered and no I/O
\* operation has failed, a filename has a record in the document exactly when
\* a file is stored under it.
C35_RecordIffFile ==
  ((\A q \in 1..Len(reqs) : reqs[q].pc = "done") /\ ioFailures = 0) =>
    \A n \in Names : HasRecord(doc, n) <=> disk[n] # 0

\* ------------------------------------- more claims on scripts/serve.mjs
\* The document of serve.mjs holds a record of the name.
ServeStored(d, n) == d.state = "ok" /\ FindIndex(d.images, n) > 0

\* C36: a POST /delete of serve.mjs that leaves a readable document removes
\* a record only when its reply lists the record's filename in deleted, also
\* when removing the file throws.
C36_RemovedOnlyIfReported ==
  [][(/\ Len(sreqs') = Len(sreqs) + 1
      /\ sreqs'[Len(sreqs')].kind = "delete"
      /\ dbJson'.state = "ok") =>
       \A n \in Names :
         (ServeStored(dbJson, n) /\ ~ServeStored(dbJson', n)) =>
           /\ sreqs'[Len(sreqs')].name = n
           /\ sreqs'[Len(sreqs')].status = "deleted"]_vars

\* ------------------------------------ more claims about the bulk delete
\* C37: whatever the items of a bulk delete are, every file outside the
\* uploads directory, the metadata document among them, is still there
\* after the request.
C37_OutsideFilesStay ==
  \A k \in DOMAIN disk : k \notin Names => disk[k] # 0

====
